---- MODULE Spec2Model ----
(***************************************************************************)
(* A model of the stateful sequence-block detector of check_scoutam.py:    *)
(* is_scheduler_node, load_sequence_state, save_sequence_state and         *)
(* check_sequences, with the state file, its temporary file and the flock  *)
(* locks on them.                                                          *)
(*                                                                         *)
(* Times are whole seconds 0..MaxTime.  A file's content is the sequence   *)
(* of lines json.dump(indent=2) writes, one [k, v] record per line.  The   *)
(* diagnostic dump is the sequence of lines cmd() returns.                 *)
(***************************************************************************)
EXTENDS Integers, Sequences, FiniteSets, TLC

(* ------------------------------ bounds -------------------------------- *)

\* the clock runs from 0 to MaxTime
MaxTime == 2

\* thresholds drawn for the classification specification: 0..MaxThreshold
MaxThreshold == 3

\* invocations started in the overlapping-invocation specification
MaxRuns == 3

(* --------------------------- program constants ------------------------ *)

NRPE_EXIT_OK == 0
NRPE_EXIT_WARN == 1
NRPE_EXIT_CRIT == 2

STATE_FILE == "check_scoutam_sequences.json"
TEMP_FILE == "check_scoutam_sequences.json.tmp"

(* ------------------------------ domains ------------------------------- *)

Mounts == {"/mnt/a", "/mnt/b"}
MountOrder == <<"/mnt", "/mnt/a", "/mnt/ab", "/mnt/b">>
FsidOf == [m \in Mounts |-> IF m = "/mnt/a" THEN "f0a" ELSE "f0b"]
\* the (inode, reason) pairs a Blocked line can carry
BlockedPairs == {<<"41", "waiting on lock">>, <<"41", "io error">>,
                 <<"42", "waiting on lock">>}
Kinds == {"arfind", "stfind"}

\* current_fs_seq = None
NoSeq == -1

\* decimal text of the small numbers the model writes into files and dumps
Digits == <<"0", "1", "2", "3", "4", "5", "6", "7", "8", "9">>
ToStr(n) == Digits[n + 1]
IsNumStr(s) == \E n \in 0..9 : Digits[n + 1] = s
FromStr(s) == CHOOSE n \in 0..9 : Digits[n + 1] = s

\* the later of two severities instead of the worse
TakeLater(a, b) == b

Max(a, b) == IF a >= b THEN a ELSE b

(* ------------------------- monitor and mount records ------------------ *)

NotBlockedMon == [status |-> "not_blocked"]
BlockedMon(since, inode, reason) ==
    [status |-> "blocked", blocked_since |-> since, inode |-> inode, reason |-> reason]

\* dict.get(key): None when the key is missing
GetStatus(mon) == IF "status" \in DOMAIN mon THEN mon.status ELSE "None"
GetInode(mon) == IF "inode" \in DOMAIN mon THEN mon.inode ELSE "None"

EmptyState == [m \in {} |-> NotBlockedMon]

Put(state, m, rec) ==
    [x \in (DOMAIN state) \cup {m} |-> IF x = m THEN rec ELSE state[x]]

Restrict(state, S) == [x \in (DOMAIN state) \cap S |-> state[x]]

(* ------------------ json.dump / json.load of the state ---------------- *)

Line(k, v) == [k |-> k, v |-> v]

\* a monitor's dict written without its reason
EncodeMonNoReason(name, mon) ==
    <<Line(name, "{")>>
    \o (IF "status" \in DOMAIN mon THEN <<Line("status", mon.status)>> ELSE <<>>)
    \o (IF "blocked_since" \in DOMAIN mon
        THEN <<Line("blocked_since", ToStr(mon.blocked_since))>> ELSE <<>>)
    \o (IF "inode" \in DOMAIN mon THEN <<Line("inode", mon.inode)>> ELSE <<>>)
    \o <<Line("}", "")>>

\* a monitor's dict: the keys it has, in the order the code inserts them
EncodeMon(name, mon) ==
    <<Line(name, "{")>>
    \o (IF "status" \in DOMAIN mon THEN <<Line("status", mon.status)>> ELSE <<>>)
    \o (IF "blocked_since" \in DOMAIN mon
        THEN <<Line("blocked_since", ToStr(mon.blocked_since))>> ELSE <<>>)
    \o (IF "inode" \in DOMAIN mon THEN <<Line("inode", mon.inode)>> ELSE <<>>)
    \o (IF "reason" \in DOMAIN mon THEN <<Line("reason", mon.reason)>> ELSE <<>>)
    \o <<Line("}", "")>>

EncodeFs(m, rec) ==
    <<Line("mount", m),
      Line("fsid", rec.fsid),
      Line("last_check", ToStr(rec.last_check)),
      Line("current_fs_seq", IF rec.current_fs_seq = NoSeq THEN "null"
                             ELSE ToStr(rec.current_fs_seq))>>
    \o EncodeMon("arfind", rec.arfind)
    \o EncodeMon("stfind", rec.stfind)
    \o <<Line("}", "")>>

RECURSIVE EncodeFrom(_, _)
EncodeFrom(state, i) ==
    IF i > Len(MountOrder) THEN <<>>
    ELSE (IF MountOrder[i] \in DOMAIN state
          THEN EncodeFs(MountOrder[i], state[MountOrder[i]])
          ELSE <<>>)
         \o EncodeFrom(state, i + 1)

\* json.dump(state, f, indent=2): the text written for a state
Encode(state) == <<Line("{", "")>> \o EncodeFrom(state, 1) \o <<Line("}", "")>>

Bad == [ok |-> FALSE]

Is(ls, i, k) == i <= Len(ls) /\ ls[i].k = k

\* an object holding any of the keys a monitor's dict can have
ParseMon(ls, i, name) ==
    IF ~Is(ls, i, name) THEN Bad
    ELSE LET hs == Is(ls, i + 1, "status")
             i2 == IF hs THEN i + 2 ELSE i + 1
             hb == Is(ls, i2, "blocked_since") /\ IsNumStr(ls[i2].v)
             i3 == IF hb THEN i2 + 1 ELSE i2
             hi == Is(ls, i3, "inode")
             i4 == IF hi THEN i3 + 1 ELSE i3
             hr == Is(ls, i4, "reason")
             i5 == IF hr THEN i4 + 1 ELSE i4
             keys == (IF hs THEN {"status"} ELSE {})
                     \cup (IF hb THEN {"blocked_since"} ELSE {})
                     \cup (IF hi THEN {"inode"} ELSE {})
                     \cup (IF hr THEN {"reason"} ELSE {})
         IN IF ~Is(ls, i5, "}") THEN Bad
            ELSE [ok |-> TRUE,
                  mon |-> [f \in keys |->
                             IF f = "status" THEN ls[i + 1].v
                             ELSE IF f = "blocked_since" THEN FromStr(ls[i2].v)
                             ELSE IF f = "inode" THEN ls[i3].v
                             ELSE ls[i4].v],
                  next |-> i5 + 1]

ParseFs(ls, i) ==
    IF ~(Is(ls, i, "mount") /\ Is(ls, i + 1, "fsid") /\ Is(ls, i + 2, "last_check")
         /\ IsNumStr(ls[i + 2].v) /\ Is(ls, i + 3, "current_fs_seq")
         /\ (ls[i + 3].v = "null" \/ IsNumStr(ls[i + 3].v)))
    THEN Bad
    ELSE LET a == ParseMon(ls, i + 4, "arfind") IN
         IF ~a.ok THEN Bad
         ELSE LET s == ParseMon(ls, a.next, "stfind") IN
              IF ~s.ok \/ ~Is(ls, s.next, "}") THEN Bad
              ELSE [ok |-> TRUE, mount |-> ls[i].v,
                    rec |-> [fsid |-> ls[i + 1].v,
                             last_check |-> FromStr(ls[i + 2].v),
                             current_fs_seq |-> IF ls[i + 3].v = "null" THEN NoSeq
                                                ELSE FromStr(ls[i + 3].v),
                             arfind |-> a.mon,
                             stfind |-> s.mon],
                    next |-> s.next + 1]

RECURSIVE ParseFsList(_, _, _)
ParseFsList(ls, i, acc) ==
    IF Is(ls, i, "}") THEN (IF i = Len(ls) THEN [ok |-> TRUE, state |-> acc] ELSE Bad)
    ELSE LET f == ParseFs(ls, i) IN
         IF ~f.ok THEN Bad ELSE ParseFsList(ls, f.next, Put(acc, f.mount, f.rec))

\* json.load(f): the state a file content parses to, or a JSONDecodeError
Decode(ls) == IF Is(ls, 1, "{") THEN ParseFsList(ls, 2, EmptyState) ELSE Bad

(* ------------------------- the diagnostic dump ------------------------ *)

\* one line of `samcli debug seq -c`: t is the shape the regexes tell apart
DLine(t, a, b) == [t |-> t, a |-> a, b |-> b]
Header(fsid, mount) == DLine("hdr", fsid, mount)
SeqLine(n) == DLine("seq", ToStr(n), "")
BlockedLine(kind, inode, reason) == DLine(kind \o "_blocked", inode, reason)
NotBlockedLine(kind) == DLine(kind \o "_not_blocked", "", "")
OtherLine == DLine("other", "", "")

\* str.strip() on the mount captured from a header
Strip(s) == IF s = "/mnt/a " THEN "/mnt/a" ELSE s

RECURSIVE NextHdr(_, _)
\* the first line at or after i that holds '### FSID:', or Len + 1
NextHdr(lines, i) ==
    IF i > Len(lines) THEN i
    ELSE IF lines[i].t = "hdr" THEN i ELSE NextHdr(lines, i + 1)

RECURSIVE BlocksFrom(_, _)
\* fs_regex.finditer(output): a header needs a newline after its mount, so
\* it is matched only when a line follows it; the content runs up to the
\* next '### FSID:' or the end of the output
BlocksFrom(lines, i) ==
    IF i > Len(lines) THEN <<>>
    ELSE IF lines[i].t = "hdr" /\ i < Len(lines)
    THEN LET j == NextHdr(lines, i + 1) IN
         <<[fsid |-> lines[i].a, mount |-> lines[i].b,
            content |-> SubSeq(lines, i + 1, j - 1)]>>
         \o BlocksFrom(lines, j)
    ELSE BlocksFrom(lines, i + 1)

FsBlocks(lines) == BlocksFrom(lines, 1)

RECURSIVE SearchFrom(_, _, _)
\* regex.search(content): the index of the first line of shape t, or 0
SearchFrom(content, t, i) ==
    IF i > Len(content) THEN 0
    ELSE IF content[i].t = t THEN i ELSE SearchFrom(content, t, i + 1)

Search(content, t) == SearchFrom(content, t, 1)

(* --------------------------- the state tracker ------------------------ *)

NoMount == ""

Args(mount, aw, ac, sw, sc) ==
    [mount |-> mount, arfind_warn |-> aw, arfind_crit |-> ac,
     stfind_warn |-> sw, stfind_crit |-> sc]

WarnOf(args, kind) == IF kind = "arfind" THEN args.arfind_warn ELSE args.stfind_warn
CritOf(args, kind) == IF kind = "arfind" THEN args.arfind_crit ELSE args.stfind_crit

Msg(sev, kind, mount, text, dur) ==
    [sev |-> sev, kind |-> kind, mount |-> mount, text |-> text, dur |-> dur]

SevName(status) ==
    IF status = NRPE_EXIT_CRIT THEN "CRITICAL"
    ELSE IF status = NRPE_EXIT_WARN THEN "WARN" ELSE "OK"

\* the threshold test with the two tests in the other order
ClassifyWarnFirst(duration, warn, crit) ==
    IF duration >= warn THEN NRPE_EXIT_WARN
    ELSE IF duration >= crit THEN NRPE_EXIT_CRIT
    ELSE NRPE_EXIT_OK

\* the threshold test of check_sequences: crit first, then warn
Classify(duration, warn, crit) ==
    IF duration >= crit THEN NRPE_EXIT_CRIT
    ELSE IF duration >= warn THEN NRPE_EXIT_WARN
    ELSE NRPE_EXIT_OK

\* a Blocked line handled without taking the new reason
OnBlockedKeepReason(mon, inode, reason, current_time) ==
    IF GetStatus(mon) # "blocked" \/ GetInode(mon) # inode
    THEN [mon |-> BlockedMon(current_time, inode, reason), duration |-> 0]
    ELSE [mon |-> mon, duration |-> current_time - mon.blocked_since]

\* a Blocked line handled without comparing the inode
OnBlockedAnyInode(mon, inode, reason, current_time) ==
    IF GetStatus(mon) # "blocked"
    THEN [mon |-> BlockedMon(current_time, inode, reason), duration |-> 0]
    ELSE [mon |-> [mon EXCEPT !.inode = inode, !.reason = reason],
          duration |-> current_time - mon.blocked_since]

\* a Blocked line handled by restarting the clock every time
OnBlockedRestart(mon, inode, reason, current_time) ==
    [mon |-> BlockedMon(current_time, inode, reason), duration |-> 0]

\* a Blocked line for a monitor: the record kept and the duration used
OnBlocked(mon, inode, reason, current_time) ==
    IF GetStatus(mon) # "blocked" \/ GetInode(mon) # inode
    THEN [mon |-> BlockedMon(current_time, inode, reason), duration |-> 0]
    ELSE [mon |-> [mon EXCEPT !.reason = reason],
          duration |-> current_time - mon.blocked_since]

\* a 'Restart Not Blocked' line handled as if the line were missing
OnNotBlockedKeep(mon) == mon

\* an explicit 'Restart Not Blocked' line
OnNotBlocked(mon) == NotBlockedMon

\* neither line in the block, handled as if 'Restart Not Blocked' were there
OnAbsentClear(mon) == [status |-> "not_blocked"]

\* neither line in the block: the record is left as it is
OnAbsent(mon) == mon

\* the Arfind (or Stfind) part of the loop body for one filesystem block
CheckMonitor(kind, mon, mount, content, current_time, warn, crit) ==
    LET b == Search(content, kind \o "_blocked") IN
    IF b # 0
    THEN LET r == OnBlocked(mon, content[b].a, content[b].b, current_time)
             sev == Classify(r.duration, warn, crit)
         IN [mon |-> r.mon, sev |-> sev,
             msgs |-> <<Msg(SevName(sev), kind, mount,
                            IF sev = NRPE_EXIT_OK THEN "blocked (under threshold)"
                            ELSE "blocked", r.duration)>>]
    ELSE IF Search(content, kind \o "_not_blocked") # 0
    THEN [mon |-> OnNotBlocked(mon), sev |-> NRPE_EXIT_OK,
          msgs |-> <<Msg("OK", kind, mount, "not blocked", 0)>>]
    ELSE [mon |-> OnAbsent(mon), sev |-> NRPE_EXIT_OK, msgs |-> <<>>]

\* current_seq_regex.search(content)
CurrentFsSeq(content) ==
    LET i == Search(content, "seq") IN
    IF i = 0 THEN NoSeq ELSE FromStr(content[i].a)

\* 'Initialize or update filesystem state'
TouchFs(state, mount, fsid, current_time, seq) ==
    IF mount \notin DOMAIN state
    THEN Put(state, mount, [fsid |-> fsid, last_check |-> current_time,
                            current_fs_seq |-> seq,
                            arfind |-> NotBlockedMon, stfind |-> NotBlockedMon])
    ELSE [state EXCEPT ![mount] = [@ EXCEPT !.fsid = fsid,
                                             !.last_check = current_time,
                                             !.current_fs_seq = seq]]

\* s.startswith(p), on the mount names of the model
StartsWith(s, p) ==
    \/ s = p
    \/ <<s, p>> \in {<<"/mnt/a", "/mnt">>, <<"/mnt/ab", "/mnt">>, <<"/mnt/b", "/mnt">>,
                     <<"/mnt/ab", "/mnt/a">>}

\* one iteration of the loop with --mount matching every mount that starts
\* with it
ProcessFsPrefixFilter(acc, block, current_time, args) ==
    LET mount == Strip(block.mount) IN
    IF args.mount # NoMount /\ ~StartsWith(mount, args.mount)
    THEN [acc EXCEPT !.fs_found = TRUE]
    ELSE LET s0 == TouchFs(acc.state, mount, block.fsid, current_time,
                           CurrentFsSeq(block.content))
             a == CheckMonitor("arfind", s0[mount].arfind, mount, block.content,
                               current_time, args.arfind_warn, args.arfind_crit)
             s == CheckMonitor("stfind", s0[mount].stfind, mount, block.content,
                               current_time, args.stfind_warn, args.stfind_crit)
         IN [fs_found |-> TRUE,
             seen |-> acc.seen \cup {mount},
             state |-> [s0 EXCEPT ![mount] = [@ EXCEPT !.arfind = a.mon,
                                                       !.stfind = s.mon]],
             status |-> Max(Max(acc.status, a.sev), s.sev),
             msgs |-> acc.msgs \o a.msgs \o s.msgs]

\* one iteration of the loop with fs_found set only for a block that passes
\* the --mount filter
ProcessFsFilterFirst(acc, block, current_time, args) ==
    LET mount == Strip(block.mount) IN
    IF args.mount # NoMount /\ mount # args.mount
    THEN acc
    ELSE LET s0 == TouchFs(acc.state, mount, block.fsid, current_time,
                           CurrentFsSeq(block.content))
             a == CheckMonitor("arfind", s0[mount].arfind, mount, block.content,
                               current_time, args.arfind_warn, args.arfind_crit)
             s == CheckMonitor("stfind", s0[mount].stfind, mount, block.content,
                               current_time, args.stfind_warn, args.stfind_crit)
         IN [fs_found |-> TRUE,
             seen |-> acc.seen \cup {mount},
             state |-> [s0 EXCEPT ![mount] = [@ EXCEPT !.arfind = a.mon,
                                                       !.stfind = s.mon]],
             status |-> Max(Max(acc.status, a.sev), s.sev),
             msgs |-> acc.msgs \o a.msgs \o s.msgs]

\* one iteration of the loop with stfind tracked in the record of arfind
ProcessFsSharedRecord(acc, block, current_time, args) ==
    LET mount == Strip(block.mount) IN
    IF args.mount # NoMount /\ mount # args.mount
    THEN [acc EXCEPT !.fs_found = TRUE]
    ELSE LET s0 == TouchFs(acc.state, mount, block.fsid, current_time,
                           CurrentFsSeq(block.content))
             a == CheckMonitor("arfind", s0[mount].arfind, mount, block.content,
                               current_time, args.arfind_warn, args.arfind_crit)
             s == CheckMonitor("stfind", a.mon, mount, block.content,
                               current_time, args.stfind_warn, args.stfind_crit)
         IN [fs_found |-> TRUE,
             seen |-> acc.seen \cup {mount},
             state |-> [s0 EXCEPT ![mount] = [@ EXCEPT !.arfind = a.mon,
                                                       !.stfind = s.mon]],
             status |-> Max(Max(acc.status, a.sev), s.sev),
             msgs |-> acc.msgs \o a.msgs \o s.msgs]

\* one iteration of 'for fs_match in fs_regex.finditer(output)'
ProcessFs(acc, block, current_time, args) ==
    LET mount == Strip(block.mount) IN
    IF args.mount # NoMount /\ mount # args.mount
    THEN [acc EXCEPT !.fs_found = TRUE]
    ELSE LET s0 == TouchFs(acc.state, mount, block.fsid, current_time,
                           CurrentFsSeq(block.content))
             a == CheckMonitor("arfind", s0[mount].arfind, mount, block.content,
                               current_time, args.arfind_warn, args.arfind_crit)
             s == CheckMonitor("stfind", s0[mount].stfind, mount, block.content,
                               current_time, args.stfind_warn, args.stfind_crit)
         IN [fs_found |-> TRUE,
             seen |-> acc.seen \cup {mount},
             state |-> [s0 EXCEPT ![mount] = [@ EXCEPT !.arfind = a.mon,
                                                       !.stfind = s.mon]],
             status |-> Max(Max(acc.status, a.sev), s.sev),
             msgs |-> acc.msgs \o a.msgs \o s.msgs]

RECURSIVE ProcessBlocksStopOnCritical(_, _, _, _, _)
\* the loop left at the first filesystem that raised the status to CRITICAL
ProcessBlocksStopOnCritical(acc, blocks, i, current_time, args) ==
    IF i > Len(blocks) \/ acc.status = NRPE_EXIT_CRIT THEN acc
    ELSE ProcessBlocksStopOnCritical(ProcessFs(acc, blocks[i], current_time, args),
                                     blocks, i + 1, current_time, args)

RECURSIVE ProcessBlocks(_, _, _, _, _)
ProcessBlocks(acc, blocks, i, current_time, args) ==
    IF i > Len(blocks) THEN acc
    ELSE ProcessBlocks(ProcessFs(acc, blocks[i], current_time, args),
                       blocks, i + 1, current_time, args)

\* the state written back without the clean-up of stale entries
PruneNothing(state, seen) == state

\* 'Clean up stale entries from state'
Prune(state, seen) == Restrict(state, seen)

\* the end of the loop with the pruning and the write done whether or not a
\* filesystem was found
FinishTrackSavesAnyway(acc) ==
    IF ~acc.fs_found
       THEN [save |-> TRUE, state |-> Prune(acc.state, acc.seen),
             status |-> NRPE_EXIT_CRIT,
             msgs |-> acc.msgs \o <<Msg("CRITICAL", "", "", "No filesystems found in sequence output", 0)>>]
       ELSE [save |-> TRUE, state |-> Prune(acc.state, acc.seen),
             status |-> acc.status, msgs |-> acc.msgs]

\* after the loop: the fs_found test and the pruning
FinishTrack(acc) ==
    IF ~acc.fs_found
       THEN [save |-> FALSE, state |-> acc.state, status |-> NRPE_EXIT_CRIT,
             msgs |-> acc.msgs \o <<Msg("CRITICAL", "", "", "No filesystems found in sequence output", 0)>>]
       ELSE [save |-> TRUE, state |-> Prune(acc.state, acc.seen),
             status |-> acc.status, msgs |-> acc.msgs]
Track(loaded, lines, current_time, args) ==
    FinishTrack(ProcessBlocks([fs_found |-> FALSE, seen |-> {}, state |-> loaded,
                              status |-> NRPE_EXIT_OK, msgs |-> <<>>],
                             FsBlocks(lines), 1, current_time, args))

(* ----------------------- cmd and is_scheduler_node -------------------- *)

\* what running an external command comes to: it exits with a code and an
\* output, it runs past the timeout, or it cannot be executed at all
Exit(code, out) == [how |-> "exit", code |-> code, out |-> out]
TimedOut == [how |-> "timeout", code |-> 0, out |-> <<>>]
Unreachable == [how |-> "unreachable", code |-> 0, out |-> <<>>]
NoRun == [how |-> "not run", code |-> 0, out |-> <<>>]

\* cmd with the timeout handled as if the command had succeeded with no output
CmdTimeoutAsSuccess(run) ==
    IF run.how = "unreachable"
    THEN [error |-> "FileNotFoundError", stdout |-> <<>>, ret |-> 0, raised |-> TRUE]
    ELSE IF run.how = "timeout"
    THEN [error |-> "None", stdout |-> <<>>, ret |-> 0, raised |-> FALSE]
    ELSE IF run.code # 0
    THEN [error |-> "stderr", stdout |-> <<>>, ret |-> run.code, raised |-> FALSE]
    ELSE [error |-> "None", stdout |-> run.out, ret |-> 0, raised |-> FALSE]

\* cmd(command): (error, stdout, returncode); subprocess.run raises an
\* OSError, which cmd does not catch, when the command cannot be executed
Cmd(run) ==
    IF run.how = "unreachable"
    THEN [error |-> "FileNotFoundError", stdout |-> <<>>, ret |-> 0, raised |-> TRUE]
    ELSE IF run.how = "timeout"
    THEN [error |-> "timed out", stdout |-> <<>>, ret |-> -1, raised |-> FALSE]
    ELSE IF run.code # 0
    THEN [error |-> "stderr", stdout |-> <<>>, ret |-> run.code, raised |-> FALSE]
    ELSE [error |-> "None", stdout |-> run.out, ret |-> 0, raised |-> FALSE]

\* host names are sequences of characters
Hostname == <<"n", "1">>
\* the scheduler name that is this host's, and another node's
LocalName == <<"N", "1", ".", "c">>
OtherName == <<"n", "2", ".", "c">>
SchedulerNames == {LocalName, OtherName}
NoName == <<>>

SysLine(t, name) == [t |-> t, name |-> name]
SysOutput(name) == <<SysLine("other", NoName), SysLine("scheduler name", name)>>
SysOutputNoLine == <<SysLine("other", NoName)>>

\* str.lower() on one character
Lower(c) == IF c = "N" THEN "n" ELSE IF c = "C" THEN "c" ELSE c
LowerAll(s) == [i \in 1..Len(s) |-> Lower(s[i])]

RECURSIVE DotFrom(_, _)
DotFrom(s, i) == IF i > Len(s) THEN i ELSE IF s[i] = "." THEN i ELSE DotFrom(s, i + 1)

\* the names compared whole, without cutting at the first dot
WholeName(s) == s

\* name.split('.')[0]
ShortName(s) == SubSeq(s, 1, DotFrom(s, 1) - 1)

RECURSIVE SchedLineFrom(_, _)
\* scheduler_regex.search(output)
SchedLineFrom(out, i) ==
    IF i > Len(out) THEN 0
    ELSE IF out[i].t = "scheduler name" /\ out[i].name # NoName THEN i
    ELSE SchedLineFrom(out, i + 1)

\* is_scheduler_node with a missing 'scheduler name' line read as 'some
\* other node is the scheduler'
IsSchedulerNodeNoLineIsOther(run, hostname) ==
    LET c == Cmd(run) IN
    IF c.raised
    THEN [is_scheduler |-> FALSE, scheduler_name |-> NoName, error |-> FALSE,
          raised |-> TRUE]
    ELSE IF c.ret # 0
    THEN [is_scheduler |-> FALSE, scheduler_name |-> NoName, error |-> TRUE,
          raised |-> FALSE]
    ELSE LET i == SchedLineFrom(c.stdout, 1) IN
         IF i = 0
         THEN [is_scheduler |-> FALSE, scheduler_name |-> NoName, error |-> FALSE,
               raised |-> FALSE]
         ELSE [is_scheduler |-> LowerAll(ShortName(c.stdout[i].name))
                                = LowerAll(ShortName(hostname)),
               scheduler_name |-> c.stdout[i].name, error |-> FALSE,
               raised |-> FALSE]

\* is_scheduler_node(): (is_scheduler, scheduler_name, error); raised when
\* the exception of cmd passes through it
IsSchedulerNode(run, hostname) ==
    LET c == Cmd(run) IN
    IF c.raised
    THEN [is_scheduler |-> FALSE, scheduler_name |-> NoName, error |-> FALSE,
          raised |-> TRUE]
    ELSE IF c.ret # 0
    THEN [is_scheduler |-> FALSE, scheduler_name |-> NoName, error |-> TRUE,
          raised |-> FALSE]
    ELSE LET i == SchedLineFrom(c.stdout, 1) IN
         IF i = 0
         THEN [is_scheduler |-> FALSE, scheduler_name |-> NoName, error |-> TRUE,
               raised |-> FALSE]
         ELSE [is_scheduler |-> LowerAll(ShortName(c.stdout[i].name))
                                = LowerAll(ShortName(hostname)),
               scheduler_name |-> c.stdout[i].name, error |-> FALSE,
               raised |-> FALSE]

(* ------------------------------ the files ----------------------------- *)

Procs == {"p1", "p2"}

\* inode numbers; 0 is 'no such file'.  Two names and one open file per
\* process can each hold an inode.
NoIno == 0
Inos == 1..(Cardinality(Procs) + 2)

Exists(d, path) == d[path] # NoIno

\* the inodes some process holds open
OpenInos(fds) == {fds[p] : p \in Procs} \ {NoIno}

\* an inode nobody names and nobody holds open is gone
Live(d, fds) == ({d[STATE_FILE], d[TEMP_FILE]} \cup OpenInos(fds)) \ {NoIno}

FreeIno(d, fds) == CHOOSE i \in Inos : i \notin Live(d, fds) /\
                       \A j \in Inos : j \notin Live(d, fds) => i <= j

\* forget the content of the inodes that are gone
Collect(ino, d, fds) == [i \in Inos |-> IF i \in Live(d, fds) THEN ino[i] ELSE <<>>]

Files == {STATE_FILE, TEMP_FILE}

\* a line of bytes that are not text in the encoding the file is opened with
BadBytes == Line("\\xff", "")

\* f.read() inside json.load decodes the bytes: a UnicodeDecodeError when
\* they are not text
Readable(ls) == \A i \in 1..Len(ls) : ls[i] # BadBytes

\* the system calls of the state store that can fail with an OSError
LoadFails == "open(STATE_FILE) fails"
UnlinkFails == "unlink(STATE_FILE) fails"
MakedirsFails == "makedirs fails"
SaveFailures == {"open(temp) fails", "write fails", "chmod fails", "rename fails",
                 "rename and cleanup fail"}
IoOk == "ok"

\* load_sequence_state() run with nothing else touching the files: the
\* state returned, whether the warning was printed, and raised when an
\* exception other than JSONDecodeError and IOError leaves it
LoadSequenceState(d, ino, io) ==
    IF ~Exists(d, STATE_FILE)
    THEN [state |-> EmptyState, warned |-> FALSE, raised |-> FALSE]
    ELSE IF io = LoadFails
    THEN [state |-> EmptyState, warned |-> TRUE, raised |-> FALSE]
    ELSE IF ~Readable(ino[d[STATE_FILE]])
    THEN [state |-> EmptyState, warned |-> FALSE, raised |-> TRUE]
    ELSE LET r == Decode(ino[d[STATE_FILE]]) IN
         IF r.ok THEN [state |-> r.state, warned |-> FALSE, raised |-> FALSE]
         ELSE [state |-> EmptyState, warned |-> TRUE, raised |-> FALSE]

\* save_sequence_state writing the state file in place, without the
\* temporary file and the rename
SaveSequenceStateInPlace(d, ino, fds, state, io) ==
    LET t == IF Exists(d, STATE_FILE) THEN d[STATE_FILE] ELSE FreeIno(d, fds)
        opened == [d EXCEPT ![STATE_FILE] = t]
    IN IF io = IoOk
       THEN [dir |-> opened,
             inodes |-> Collect([ino EXCEPT ![t] = Encode(state)], opened, fds)]
       ELSE IF io \in {MakedirsFails, "open(temp) fails"}
       THEN [dir |-> d, inodes |-> ino]
       ELSE [dir |-> opened,
             inodes |-> Collect([ino EXCEPT ![t] = <<>>], opened, fds)]

\* save_sequence_state(state) run with nothing else touching the files:
\* makedirs when the directory is missing, open(temp, 'w'), json.dump,
\* close, chmod, rename; on an OSError the temporary file is removed
SaveSequenceState(d, ino, fds, state, io) ==
    LET t == IF Exists(d, TEMP_FILE) THEN d[TEMP_FILE] ELSE FreeIno(d, fds)
        renamed == [f \in Files |-> IF f = STATE_FILE THEN t ELSE NoIno]
        cleaned == [d EXCEPT ![TEMP_FILE] = NoIno]
        kept == [d EXCEPT ![TEMP_FILE] = t]
    IN IF io = IoOk
       THEN [dir |-> renamed,
             inodes |-> Collect([ino EXCEPT ![t] = Encode(state)], renamed, fds)]
       ELSE IF io = MakedirsFails
       THEN [dir |-> d, inodes |-> ino]
       ELSE IF io = "rename and cleanup fail"
       THEN [dir |-> kept,
             inodes |-> Collect([ino EXCEPT ![t] = Encode(state)], kept, fds)]
       ELSE [dir |-> cleaned, inodes |-> Collect(ino, cleaned, fds)]

\* an unlink that leaves the file where it is
\* a failed dump command that also removes the state file
CommandFailedDropsState(d, ino) ==
    LET d1 == [d EXCEPT ![STATE_FILE] = NoIno]
    IN [dir |-> d1, inodes |-> Collect(ino, d1, [p \in Procs |-> NoIno])]

\* 'if ret != 0: ... return NRPE_EXIT_CRIT, nrpe_msgs': the return comes
\* before load_sequence_state() and touches no file
CommandFailed(d, ino) == [dir |-> d, inodes |-> ino]

UnlinkNothing(d, ino, fds, path) == [dir |-> d, inodes |-> ino]

\* os.unlink(path)
Unlink(d, ino, fds, path) ==
    LET d1 == [d EXCEPT ![path] = NoIno]
    IN [dir |-> d1, inodes |-> Collect(ino, d1, fds)]

(* ------------------------------ the state ----------------------------- *)

VARIABLES
    now,        \* the clock, time.time()
    scheduler,  \* the scheduler name the cluster reports
    cfg,        \* the thresholds the check is invoked with
    dir,        \* file name -> inode (NoIno: no such file)
    inodes,     \* inode -> content, a sequence of lines
    last,       \* what the last whole invocation was given and returned
    pc,         \* overlapping invocations: where each one is
    loc,        \* ... its local variables
    fd,         \* ... the inode of the file it holds open
    lk,         \* ... the flock it holds on that file
    runs,       \* ... how many have been started
    phase,      \* history: where each monitor stands since the last demotion
    nsrun,      \* history: a run found this node not scheduler (since the last
                \* demotion; with overlapping invocations, the one started last)
    ov          \* history: the invocation has run alongside another one

fsvars == <<dir, inodes>>
envvars == <<now, scheduler, cfg>>
procvars == <<pc, loc, fd, lk, runs>>
histvars == <<phase, nsrun, ov>>
vars == <<now, scheduler, cfg, dir, inodes, last, pc, loc, fd, lk, runs, phase, nsrun, ov>>

(* ------------------------- what the check is given -------------------- *)

\* the lines one monitor kind can contribute to a block
MonLines(kind) ==
    {<<>>, <<NotBlockedLine(kind)>>}
    \cup {<<BlockedLine(kind, b[1], b[2])>> : b \in BlockedPairs}

FsDump(m, a, s) == <<Header(FsidOf[m], m), SeqLine(7)>> \o a \o s

\* dumps with one filesystem block, and the dump with none
DumpsOne ==
    {FsDump("/mnt/a", a, s) : a \in MonLines("arfind"), s \in MonLines("stfind")}
    \cup {<<OtherLine>>}

\* the ways `samcli system` can end
SysRuns == {Exit(0, SysOutput(scheduler)), Exit(0, SysOutputNoLine),
            Exit(1, <<>>), TimedOut}

\* the ways `samcli debug seq -c` can end
SeqRuns(dumps) == {Exit(0, d) : d \in dumps} \cup {Exit(1, <<>>), TimedOut}

\* no system call of the state store fails
NoFailure == {IoOk}

ThresholdCfgs == {Args(NoMount, 1, 2, 2, 1)}

(* ---------------------- one whole invocation at a time ---------------- *)

IdleLoc == [time |-> 0, lines |-> <<>>, state |-> EmptyState,
            status |-> NRPE_EXIT_OK, msgs |-> <<>>]

NoFds == [p \in Procs |-> NoIno]

\* the end of main: the checks that ran are counted by status and the
\* process exits with 2 if any was critical, else 1 if any warned, else 0
MainExit(checks) ==
    LET nrpe_checks == [s \in {NRPE_EXIT_OK, NRPE_EXIT_WARN, NRPE_EXIT_CRIT} |->
                          Cardinality({i \in 1..Len(checks) : checks[i] = s})]
    IN IF nrpe_checks[NRPE_EXIT_CRIT] > 0 THEN NRPE_EXIT_CRIT
       ELSE IF nrpe_checks[NRPE_EXIT_WARN] > 0 THEN NRPE_EXIT_WARN
       ELSE NRPE_EXIT_OK

\* the exit status of the interpreter when an exception reaches the top
TracebackExit == 1

\* what an invocation was given (the two command runs, the state-store
\* failures that happened) and what it came to
LastOf(outcome, status, msgs, lines, sys, seq, io) ==
    [outcome |-> outcome, status |-> status, msgs |-> msgs, lines |-> lines,
     sys |-> sys, seq |-> seq, io |-> io,
     exit |-> IF outcome = "aborted" THEN TracebackExit
              ELSE IF outcome = "none" THEN NRPE_EXIT_OK
              ELSE MainExit(<<status>>)]

Last(outcome, status, msgs, lines) ==
    LastOf(outcome, status, msgs, lines, NoRun, NoRun, {})

Init ==
    /\ now = 0
    /\ scheduler \in SchedulerNames
    /\ cfg \in ThresholdCfgs
    /\ dir = [f \in Files |-> NoIno]
    /\ inodes = [i \in Inos |-> <<>>]
    /\ last = Last("none", NRPE_EXIT_OK, <<>>, <<>>)
    /\ pc = [p \in Procs |-> "idle"]
    /\ loc = [p \in Procs |-> IdleLoc]
    /\ fd = NoFds
    /\ lk = [p \in Procs |-> "none"]
    /\ runs = 0
    /\ phase = [x \in Mounts \X Kinds |-> "none"]
    /\ nsrun = FALSE
    /\ ov = [p \in Procs |-> FALSE]

\* time passes
Tick ==
    /\ now < MaxTime
    /\ now' = now + 1
    /\ UNCHANGED <<scheduler, cfg, dir, inodes, last, pc, loc, fd, lk, runs, histvars>>

\* the cluster moves the scheduler to another node
ChangeScheduler ==
    /\ \E n \in SchedulerNames \ {scheduler} : scheduler' = n
    /\ UNCHANGED <<now, cfg, dir, inodes, last, pc, loc, fd, lk, runs, histvars>>

\* the not-scheduler message without the name of the scheduler
SchedMsgUnnamed(text, name) ==
    [sev |-> "OK", kind |-> "", mount |-> "", text |-> text, dur |-> 0,
     scheduler |-> NoName]

\* the message of a run on a node that is not the scheduler
SchedMsg(text, name) ==
    [sev |-> "OK", kind |-> "", mount |-> "", text |-> text, dur |-> 0,
     scheduler |-> name]

\* main running check_sequences(args), from its first line to the exit of
\* the process, with no other invocation running
CheckSequencesWith(sys, seqs, args, ios) ==
    \E r \in {IsSchedulerNode(sys, Hostname)} :
    IF r.raised
    THEN /\ last' = LastOf("aborted", NRPE_EXIT_OK, <<>>, <<>>, sys, NoRun, {})
         /\ UNCHANGED fsvars
    ELSE IF r.error
    THEN /\ last' = LastOf("resolver error", NRPE_EXIT_WARN,
                           <<Msg("WARN", "", "", "Could not determine scheduler node", 0)>>,
                           <<>>, sys, NoRun, {})
         /\ UNCHANGED fsvars
    ELSE IF ~r.is_scheduler
    THEN IF Exists(dir, STATE_FILE)
         THEN \E io \in ios \cap {IoOk, UnlinkFails} :
              IF io = IoOk
              THEN \E u \in {Unlink(dir, inodes, NoFds, STATE_FILE)} :
                   /\ dir' = u.dir
                   /\ inodes' = u.inodes
                   /\ last' = LastOf("not scheduler", NRPE_EXIT_OK,
                                     <<SchedMsg("Not scheduler node, removed stale state file",
                                                r.scheduler_name)>>,
                                     <<>>, sys, NoRun, {})
              ELSE /\ last' = LastOf("not scheduler", NRPE_EXIT_OK,
                                     <<SchedMsg("Not scheduler node, could not remove stale state file",
                                                r.scheduler_name)>>,
                                     <<>>, sys, NoRun, {io})
                   /\ UNCHANGED fsvars
         ELSE /\ last' = LastOf("not scheduler", NRPE_EXIT_OK,
                                <<SchedMsg("Not scheduler node", r.scheduler_name)>>,
                                <<>>, sys, NoRun, {})
              /\ UNCHANGED fsvars
    ELSE \E lio \in ios \cap {IoOk, LoadFails} :
         \E ld \in {LoadSequenceState(dir, inodes, lio)} :
         \E run \in seqs :
         \E c \in {Cmd(run)} :
         IF c.raised
         THEN /\ lio = IoOk
              /\ last' = LastOf("aborted", NRPE_EXIT_OK, <<>>, <<>>, sys, run, {})
              /\ UNCHANGED fsvars
         ELSE IF c.ret # 0
         THEN /\ lio = IoOk
              /\ last' = LastOf("command failed", NRPE_EXIT_CRIT,
                                <<Msg("CRITICAL", "", "", "Sequence check failed", 0)>>,
                                <<>>, sys, run, {})
              /\ \E f \in {CommandFailed(dir, inodes)} :
                   dir' = f.dir /\ inodes' = f.inodes
         ELSE IF lio = LoadFails /\ ~Exists(dir, STATE_FILE)
         THEN FALSE
         ELSE IF ld.raised
         THEN /\ last' = LastOf("aborted", NRPE_EXIT_OK, <<>>, c.stdout, sys, run, {})
              /\ UNCHANGED fsvars
         ELSE \E t \in {Track(ld.state, c.stdout, now, args)} :
              \E lf \in {IF lio = IoOk THEN {} ELSE {lio}} :
              IF ~t.save
              THEN /\ last' = LastOf("no filesystems", t.status, t.msgs, c.stdout,
                                     sys, run, lf)
                   /\ UNCHANGED fsvars
              ELSE \E sio \in ios \cap ({IoOk, MakedirsFails} \cup SaveFailures) :
                   /\ sio = MakedirsFails
                      => ~Exists(dir, STATE_FILE) /\ ~Exists(dir, TEMP_FILE)
                   /\ \E w \in {SaveSequenceState(dir, inodes, NoFds, t.state, sio)} :
                        /\ dir' = w.dir
                        /\ inodes' = w.inodes
                        /\ last' = LastOf("tracked", t.status, t.msgs, c.stdout,
                                          sys, run,
                                          lf \cup (IF sio = IoOk THEN {} ELSE {sio}))

CheckSequences ==
    /\ \E sys \in SysRuns : CheckSequencesWith(sys, SeqRuns(DumpsOne), cfg, NoFailure)
    /\ UNCHANGED <<now, scheduler, cfg, pc, loc, fd, lk, runs, histvars>>

Next == Tick \/ ChangeScheduler \/ CheckSequences

Spec == Init /\ [][Next]_vars

(* ------------------------- reading the model's state ------------------ *)

\* the state a run would load from the state file as it is now
Persisted == LoadSequenceState(dir, inodes, IoOk).state
PersistedNext == LoadSequenceState(dir', inodes', IoOk).state

\* a monitor's record in a state; a mount without a record counts as the
\* record a first observation starts from
MonOf(state, m, k) ==
    IF m \in DOMAIN state THEN state[m][k] ELSE NotBlockedMon

\* what a dump says about monitor k of mount m: "blocked" with inode and
\* reason, "not_blocked", "absent", or "no block" when m has no block
ObsOf(lines, m, k) ==
    LET bs == FsBlocks(lines)
        idx == {i \in 1..Len(bs) : Strip(bs[i].mount) = m}
    IN IF idx = {} THEN [t |-> "no block", inode |-> "", reason |-> ""]
       ELSE LET c == bs[CHOOSE i \in idx : \A j \in idx : i <= j].content
                b == Search(c, k \o "_blocked")
            IN IF b # 0 THEN [t |-> "blocked", inode |-> c[b].a, reason |-> c[b].b]
               ELSE IF Search(c, k \o "_not_blocked") # 0
               THEN [t |-> "not_blocked", inode |-> "", reason |-> ""]
               ELSE [t |-> "absent", inode |-> "", reason |-> ""]

\* the message lines a run printed for monitor k of mount m
MsgsFor(msgs, m, k) ==
    {msgs[i] : i \in {j \in 1..Len(msgs) : msgs[j].mount = m /\ msgs[j].kind = k}}

\* the severity the specification's table gives a duration
TableSeverity(d, warn, crit) ==
    IF d >= crit THEN "CRITICAL" ELSE IF d >= warn THEN "WARN" ELSE "OK"

\* a step of Spec that is one whole invocation of the check
RunStep == now' = now /\ scheduler' = scheduler
Tracked == last.outcome = "tracked"
TrackedStep == RunStep /\ last'.outcome = "tracked"

(* -------------------------------- C1 ---------------------------------- *)

\* C1: a Blocked line on the inode the loaded state is already blocked on
\* keeps blocked_since and inode, takes the new reason, and is thresholded
\* on now - blocked_since.
C1_SameInodeKeepsClock ==
    [][TrackedStep =>
        \A before \in {Persisted}, after \in {PersistedNext} :
        \A m \in Mounts, k \in Kinds :
        \A prior \in {MonOf(before, m, k)}, obs \in {ObsOf(last'.lines, m, k)} :
          (prior.status = "blocked" /\ obs.t = "blocked" /\ obs.inode = prior.inode)
          => \A ms \in {MsgsFor(last'.msgs, m, k)} :
             /\ MonOf(after, m, k)
                  = BlockedMon(prior.blocked_since, prior.inode, obs.reason)
             /\ \E x \in ms :
                  /\ x.dur = now - prior.blocked_since
                  /\ x.sev = TableSeverity(now - prior.blocked_since,
                                           WarnOf(cfg, k), CritOf(cfg, k))
             /\ Cardinality(ms) = 1]_vars

\* a run reported a monitor blocked for a positive duration, on a clock
\* older than the run
C1_Witness ==
    /\ Tracked
    /\ \E m \in Mounts, k \in Kinds :
       \E mon \in {MonOf(Persisted, m, k)}, obs \in {ObsOf(last.lines, m, k)} :
         /\ obs.t = "blocked"
         /\ mon.status = "blocked"
         /\ mon.blocked_since < now
         /\ mon.reason = obs.reason
         /\ \E x \in MsgsFor(last.msgs, m, k) :
              x.dur = now - mon.blocked_since /\ x.dur >= 2

(* -------------------------------- C2 ---------------------------------- *)

\* C2: a Blocked line on inode Y, when the loaded state is not blocked, has
\* no record, or is blocked on another inode, starts the clock at the run's
\* time and is thresholded on 0: OK when warn > 0 and crit > 0.
C2_NewBlockStartsClock ==
    [][TrackedStep =>
        \A before \in {Persisted}, after \in {PersistedNext} :
        \A m \in Mounts, k \in Kinds :
        \A prior \in {MonOf(before, m, k)}, obs \in {ObsOf(last'.lines, m, k)} :
          (obs.t = "blocked" /\ (prior.status # "blocked" \/ prior.inode # obs.inode))
          => \A ms \in {MsgsFor(last'.msgs, m, k)} :
             /\ MonOf(after, m, k) = BlockedMon(now, obs.inode, obs.reason)
             /\ \A x \in ms :
                  /\ x.dur = 0
                  /\ (WarnOf(cfg, k) > 0 /\ CritOf(cfg, k) > 0)
                     => x.sev = "OK" /\ x.text = "blocked (under threshold)"
             /\ Cardinality(ms) = 1]_vars

\* a run later than time 0 started a clock and reported the block OK
C2_Witness ==
    /\ Tracked /\ now >= 2
    /\ \E m \in Mounts, k \in Kinds :
       \E mon \in {MonOf(Persisted, m, k)}, obs \in {ObsOf(last.lines, m, k)} :
         /\ obs.t = "blocked"
         /\ mon = BlockedMon(now, obs.inode, obs.reason)
         /\ \E x \in MsgsFor(last.msgs, m, k) :
              x.dur = 0 /\ x.sev = "OK" /\ x.text = "blocked (under threshold)"

(* -------------------------------- C3 ---------------------------------- *)

\* the worst severity among the messages a run printed for monitor k of
\* mount m; OK when it printed none
SevOf(msgs, m, k) ==
    LET ms == MsgsFor(msgs, m, k) IN
    IF \E x \in ms : x.sev = "CRITICAL" THEN "CRITICAL"
    ELSE IF \E x \in ms : x.sev = "WARN" THEN "WARN" ELSE "OK"

\* the exit status the printed messages account for
WorstOf(msgs) ==
    IF \E i \in 1..Len(msgs) : msgs[i].sev = "CRITICAL" THEN NRPE_EXIT_CRIT
    ELSE IF \E i \in 1..Len(msgs) : msgs[i].sev = "WARN" THEN NRPE_EXIT_WARN
    ELSE NRPE_EXIT_OK

\* C3 (as the code has it): a monitor with neither line in its block keeps
\* the record that was loaded, prints no message and adds nothing to the
\* run's status, whatever severity it had in the run before.
C3_AbsentKeepsRecordNoAlert ==
    [][TrackedStep =>
        \A before \in {Persisted}, after \in {PersistedNext} :
        \A m \in Mounts, k \in Kinds :
          ObsOf(last'.lines, m, k).t = "absent"
          => /\ MonOf(after, m, k) = MonOf(before, m, k)
             /\ MsgsFor(last'.msgs, m, k) = {}
             /\ last'.status = WorstOf(last'.msgs)]_vars

\* a run found a monitor absent whose record was blocked past its critical
\* threshold: the record is still there and the run reported nothing for it
C3_Witness ==
    /\ Tracked
    /\ \E m \in Mounts, k \in Kinds :
       \E mon \in {MonOf(Persisted, m, k)} :
         /\ ObsOf(last.lines, m, k).t = "absent"
         /\ mon.status = "blocked"
         /\ now - mon.blocked_since >= CritOf(cfg, k)
         /\ MsgsFor(last.msgs, m, k) = {}
         /\ last.status = NRPE_EXIT_OK

\* C3 as stated: an absent monitor keeps its record and is reported with the
\* severity it had in the run before.
C3_AbsentKeepsStatus ==
    [][(Tracked /\ TrackedStep) =>
        \A before \in {Persisted}, after \in {PersistedNext} :
        \A m \in Mounts, k \in Kinds :
          ObsOf(last'.lines, m, k).t = "absent"
          => /\ MonOf(after, m, k) = MonOf(before, m, k)
             /\ SevOf(last'.msgs, m, k) = SevOf(last.msgs, m, k)]_vars

(* -------------------------------- C4 ---------------------------------- *)

\* C4: a 'Restart Not Blocked' line leaves the record with a status and
\* nothing else, whatever was loaded, and is reported OK; a Blocked line
\* met by such a record starts the clock at the run's time, on whatever
\* inode.
C4_NotBlockedClears ==
    [][TrackedStep =>
        \A before \in {Persisted}, after \in {PersistedNext} :
        \A m \in Mounts, k \in Kinds :
        \A prior \in {MonOf(before, m, k)}, post \in {MonOf(after, m, k)},
           obs \in {ObsOf(last'.lines, m, k)} :
          /\ obs.t = "not_blocked"
             => /\ DOMAIN post = {"status"}
                /\ post.status = "not_blocked"
                /\ \A x \in MsgsFor(last'.msgs, m, k) :
                     x.sev = "OK" /\ x.text = "not blocked"
                /\ Cardinality(MsgsFor(last'.msgs, m, k)) = 1
          /\ (obs.t = "blocked" /\ DOMAIN prior = {"status"})
             => /\ post.blocked_since = now
                /\ post.inode = obs.inode
                /\ \A x \in MsgsFor(last'.msgs, m, k) : x.dur = 0]_vars

\* a run cleared a monitor with a 'Not Blocked' line after time had passed
C4_Witness ==
    /\ Tracked /\ now >= 1
    /\ \E m \in Mounts, k \in Kinds :
         /\ ObsOf(last.lines, m, k).t = "not_blocked"
         /\ m \in DOMAIN Persisted
         /\ Persisted[m][k] = NotBlockedMon
         /\ \E x \in MsgsFor(last.msgs, m, k) : x.text = "not blocked"

(* -------------------------------- C5 ---------------------------------- *)

\* every pair of thresholds for each kind
AllCfgs ==
    {Args(NoMount, aw, ac, sw, sc) :
        aw \in 0..MaxThreshold, ac \in 0..MaxThreshold,
        sw \in 0..MaxThreshold, sc \in 0..MaxThreshold}

InitSev ==
    /\ now = 0
    /\ scheduler = LocalName
    /\ cfg \in AllCfgs
    /\ dir = [f \in Files |-> NoIno]
    /\ inodes = [i \in Inos |-> <<>>]
    /\ last = Last("none", NRPE_EXIT_OK, <<>>, <<>>)
    /\ pc = [p \in Procs |-> "idle"]
    /\ loc = [p \in Procs |-> IdleLoc]
    /\ fd = NoFds
    /\ lk = [p \in Procs |-> "none"]
    /\ runs = 0
    /\ phase = [x \in Mounts \X Kinds |-> "none"]
    /\ nsrun = FALSE
    /\ ov = [p \in Procs |-> FALSE]

\* the tracker applied once, at time t, to a monitor blocked since time s
\* on the inode the dump reports
TrackBlocked ==
    /\ last.outcome = "none"
    /\ \E k \in Kinds, s \in 0..(MaxThreshold + 1) :
      \E t \in s..(MaxThreshold + 1) :
      LET other == CHOOSE o \in Kinds : o # k
          rec == [x \in {"fsid", "last_check", "current_fs_seq", k, other} |->
                    IF x = "fsid" THEN FsidOf["/mnt/a"]
                    ELSE IF x = "last_check" THEN s
                    ELSE IF x = "current_fs_seq" THEN 7
                    ELSE IF x = k THEN BlockedMon(s, "41", "io error")
                    ELSE NotBlockedMon]
          lines == <<Header(FsidOf["/mnt/a"], "/mnt/a"),
                     BlockedLine(k, "41", "io error")>>
          r == Track(Put(EmptyState, "/mnt/a", rec), lines, t, cfg)
      IN /\ now' = t
         /\ last' = Last("tracked", r.status, r.msgs, lines)
         /\ UNCHANGED <<scheduler, cfg, dir, inodes, pc, loc, fd, lk, runs, histvars>>

NextSev == TrackBlocked

SpecSev == InitSev /\ [][NextSev]_vars

\* C5: a blocked monitor's message is CRITICAL exactly when its duration
\* has reached crit, WARN exactly when it is under crit and has reached
\* warn, and OK otherwise, on the thresholds of its own kind; the run's
\* status is that severity.
C5_CritFirst ==
    \A i \in 1..Len(last.msgs) :
      LET x == last.msgs[i]
          warn == WarnOf(cfg, x.kind)
          crit == CritOf(cfg, x.kind)
      IN /\ (x.sev = "CRITICAL") <=> (x.dur >= crit)
         /\ (x.sev = "WARN") <=> (x.dur < crit /\ x.dur >= warn)
         /\ (x.sev = "OK") <=> (x.dur < crit /\ x.dur < warn)
         /\ (x.sev = "CRITICAL") <=> (last.status = NRPE_EXIT_CRIT)
         /\ (x.sev = "WARN") <=> (last.status = NRPE_EXIT_WARN)

\* a duration past both thresholds, with warn above crit, came out CRITICAL
C5_Witness ==
    \E i \in 1..Len(last.msgs) :
      LET x == last.msgs[i] IN
      /\ WarnOf(cfg, x.kind) > CritOf(cfg, x.kind)
      /\ x.dur >= WarnOf(cfg, x.kind)
      /\ x.kind = "stfind"
      /\ x.sev = "CRITICAL"
      /\ last.status = NRPE_EXIT_CRIT

(* -------------------------------- C6 ---------------------------------- *)

\* the comparison is_scheduler_node makes, on the name the cluster reports
IsLocal(name) == LowerAll(ShortName(name)) = LowerAll(ShortName(Hostname))

\* one Blocked line per kind is enough to follow a clock across a demotion
LeaderLines(kind) ==
    {<<>>, <<NotBlockedLine(kind)>>, <<BlockedLine(kind, "41", "io error")>>}

DumpsLeader ==
    {FsDump("/mnt/a", a, s) : a \in LeaderLines("arfind"), s \in LeaderLines("stfind")}
    \cup {<<OtherLine>>}

\* the scheduler moves; when it moves away from this node every monitor
\* starts waiting for its first Blocked line after the demotion
LeaderChange ==
    /\ \E n \in SchedulerNames \ {scheduler} : scheduler' = n
    /\ IF IsLocal(scheduler) /\ ~IsLocal(scheduler')
       THEN /\ phase' = [x \in Mounts \X Kinds |-> "awaiting"]
            /\ nsrun' = FALSE
       ELSE UNCHANGED <<phase, nsrun>>
    /\ UNCHANGED <<now, cfg, dir, inodes, last, pc, loc, fd, lk, runs, ov>>

\* check_sequences, whole, with the history of demotions kept beside it
CheckSequencesLeader ==
    /\ \E sys \in SysRuns : CheckSequencesWith(sys, SeqRuns(DumpsLeader), cfg, NoFailure)
    /\ nsrun' = (nsrun \/ last'.outcome = "not scheduler")
    /\ phase' = [x \in Mounts \X Kinds |->
                   IF last'.outcome # "tracked" THEN phase[x]
                   ELSE IF phase[x] = "awaiting"
                   THEN (IF ObsOf(last'.lines, x[1], x[2]).t = "blocked"
                         THEN "first" ELSE "awaiting")
                   ELSE IF phase[x] = "first" THEN "later"
                   ELSE phase[x]]
    /\ UNCHANGED <<now, scheduler, cfg, pc, loc, fd, lk, runs, ov>>

NextLeader == Tick \/ LeaderChange \/ CheckSequencesLeader

SpecLeader == Init /\ [][NextLeader]_vars

\* the first Blocked line for monitor k of mount m since the last demotion
\* started its clock at this run's time
FreshClock(m, k) ==
    \A obs \in {ObsOf(last'.lines, m, k)} :
      (phase[<<m, k>>] = "awaiting" /\ obs.t = "blocked")
      => /\ MonOf(PersistedNext, m, k) = BlockedMon(now, obs.inode, obs.reason)
         /\ \A x \in MsgsFor(last'.msgs, m, k) : x.dur = 0
         /\ MsgsFor(last'.msgs, m, k) # {}

\* C6 (as the code has it): after a demotion during which some run found
\* this node not to be the scheduler, the first Blocked line seen once the
\* node is scheduler again starts a fresh clock.
C6_FreshClockAfterObservedDemotion ==
    [][(TrackedStep /\ nsrun) => \A m \in Mounts, k \in Kinds : FreshClock(m, k)]_vars

\* demoted, seen not scheduler by a run, promoted again, and then the first
\* Blocked line, later than time 0, started a clock at the run's time
C6_Witness ==
    /\ Tracked /\ nsrun /\ now >= 1
    /\ \E m \in Mounts, k \in Kinds :
       \E obs \in {ObsOf(last.lines, m, k)} :
         /\ phase[<<m, k>>] = "first"
         /\ obs.t = "blocked"
         /\ MonOf(Persisted, m, k) = BlockedMon(now, obs.inode, obs.reason)
         /\ \E x \in MsgsFor(last.msgs, m, k) : x.dur = 0

\* C6 as stated: after any demotion and re-promotion the first Blocked line
\* starts a fresh clock, whatever ran or did not run in between.
C6_FreshClockAfterAnyDemotion ==
    [][TrackedStep => \A m \in Mounts, k \in Kinds : FreshClock(m, k)]_vars

(* ----------------------- overlapping invocations ---------------------- *)

\* Invocations of check_sequences on the scheduler node, each a process
\* taking the system calls of load_sequence_state and save_sequence_state
\* one at a time.  The documents are shorter than the file object's
\* buffer, so what json.dump writes reaches the file when the file is
\* closed.

\* dumps whose saved documents differ in length
DumpsConc ==
    {FsDump("/mnt/a", <<BlockedLine("arfind", "41", "io error")>>, <<>>),
     FsDump("/mnt/a", <<NotBlockedLine("arfind")>>, <<>>)}

Others(p) == Procs \ {p}

Goto(p, where) == pc' = [pc EXCEPT ![p] = where]

\* check_sequences up to load_sequence_state: the clock is read, the
\* resolver finds this node scheduler, the dump command succeeds
Start(p) ==
    /\ pc[p] = "idle"
    /\ runs < MaxRuns
    /\ \E sys \in {Exit(0, SysOutput(scheduler))} :
         LET r == IsSchedulerNode(sys, Hostname) IN
         ~r.raised /\ ~r.error /\ r.is_scheduler
    /\ \E d \in DumpsConc :
         LET c == Cmd(Exit(0, d)) IN
         /\ c.ret = 0
         /\ loc' = [loc EXCEPT ![p] = [time |-> now, lines |-> c.stdout,
                                       state |-> EmptyState,
                                       status |-> NRPE_EXIT_OK, msgs |-> <<>>]]
    /\ runs' = runs + 1
    /\ ov' = [q \in Procs |->
                IF q = p THEN \E o \in Others(p) : pc[o] # "idle"
                ELSE IF pc[q] # "idle" THEN TRUE ELSE ov[q]]
    /\ nsrun' = FALSE
    /\ Goto(p, "ld_exists")
    /\ UNCHANGED <<envvars, fsvars, last, fd, lk, phase>>

\* the rest of check_sequences between the load and the save
AfterLoad(p, loaded) ==
    \E t \in {Track(loaded, loc[p].lines, loc[p].time, cfg)} :
      /\ loc' = [loc EXCEPT ![p] = [@ EXCEPT !.state = t.state,
                                             !.status = t.status,
                                             !.msgs = t.msgs]]
      /\ Goto(p, IF t.save THEN "sv_open" ELSE "idle")

\* os.path.exists(STATE_FILE)
LdExists(p) ==
    /\ pc[p] = "ld_exists"
    /\ IF Exists(dir, STATE_FILE)
       THEN Goto(p, "ld_open") /\ UNCHANGED loc
       ELSE AfterLoad(p, EmptyState)
    /\ UNCHANGED <<envvars, fsvars, last, fd, lk, runs, histvars>>

\* open(STATE_FILE, 'r')
LdOpen(p) ==
    /\ pc[p] = "ld_open"
    /\ IF Exists(dir, STATE_FILE)
       THEN /\ fd' = [fd EXCEPT ![p] = dir[STATE_FILE]]
            /\ Goto(p, "ld_lock")
            /\ UNCHANGED loc
       ELSE AfterLoad(p, EmptyState) /\ UNCHANGED fd
    /\ UNCHANGED <<envvars, fsvars, last, lk, runs, histvars>>

\* a shared lock that is granted only once no other invocation has the file
\* open
LdLockWaitsForClose(p) ==
    /\ pc[p] = "ld_lock"
    /\ \A o \in Others(p) : fd[o] # fd[p]
    /\ lk' = [lk EXCEPT ![p] = "sh"]
    /\ Goto(p, "ld_read")
    /\ UNCHANGED <<envvars, fsvars, last, loc, fd, runs, histvars>>

\* flock(LOCK_SH): waits while another open file holds the lock exclusively
LdLock(p) ==
    /\ pc[p] = "ld_lock"
    /\ \A o \in Others(p) : ~(fd[o] = fd[p] /\ lk[o] = "ex")
    /\ lk' = [lk EXCEPT ![p] = "sh"]
    /\ Goto(p, "ld_read")
    /\ UNCHANGED <<envvars, fsvars, last, loc, fd, runs, histvars>>

\* json.load(f), then LOCK_UN and the close of the file; a document that
\* does not parse is an empty state
LdRead(p) ==
    /\ pc[p] = "ld_read"
    /\ \E r \in {Decode(inodes[fd[p]])} :
         AfterLoad(p, IF r.ok THEN r.state ELSE EmptyState)
    /\ lk' = [lk EXCEPT ![p] = "none"]
    /\ fd' = [fd EXCEPT ![p] = NoIno]
    /\ inodes' = Collect(inodes, dir, fd')
    /\ UNCHANGED <<envvars, dir, last, runs, histvars>>

\* open(temp_file, 'w'): the file is created, or cut to nothing if it is
\* there already
SvOpen(p) ==
    /\ pc[p] = "sv_open"
    /\ \E t \in {IF Exists(dir, TEMP_FILE) THEN dir[TEMP_FILE] ELSE FreeIno(dir, fd)} :
         /\ dir' = [dir EXCEPT ![TEMP_FILE] = t]
         /\ inodes' = [inodes EXCEPT ![t] = <<>>]
         /\ fd' = [fd EXCEPT ![p] = t]
    /\ Goto(p, "sv_lock")
    /\ UNCHANGED <<envvars, last, loc, lk, runs, histvars>>

\* flock(LOCK_EX): waits while another open file holds a lock on the file
SvLock(p) ==
    /\ pc[p] = "sv_lock"
    /\ \A o \in Others(p) : ~(fd[o] = fd[p] /\ lk[o] # "none")
    /\ lk' = [lk EXCEPT ![p] = "ex"]
    /\ Goto(p, "sv_dump")
    /\ UNCHANGED <<envvars, fsvars, last, loc, fd, runs, histvars>>

\* json.dump(state, f, indent=2) into the buffer, then LOCK_UN
SvDump(p) ==
    /\ pc[p] = "sv_dump"
    /\ lk' = [lk EXCEPT ![p] = "none"]
    /\ Goto(p, "sv_close")
    /\ UNCHANGED <<envvars, fsvars, last, loc, fd, runs, histvars>>

\* the end of the with block: the buffer is written from offset 0 over
\* what the file holds now, and the file is closed
SvClose(p) ==
    /\ pc[p] = "sv_close"
    /\ \E doc \in {Encode(loc[p].state)}, old \in {inodes[fd[p]]} :
         /\ fd' = [fd EXCEPT ![p] = NoIno]
         /\ inodes' = Collect([inodes EXCEPT ![fd[p]] =
                                  doc \o SubSeq(old, Len(doc) + 1, Len(old))],
                              dir, fd')
    /\ Goto(p, "sv_chmod")
    /\ UNCHANGED <<envvars, dir, last, loc, lk, runs, histvars>>

\* os.chmod(temp_file, 0o640): an OSError when the name is gone
SvChmod(p) ==
    /\ pc[p] = "sv_chmod"
    /\ Goto(p, IF Exists(dir, TEMP_FILE) THEN "sv_rename" ELSE "sv_except")
    /\ UNCHANGED <<envvars, fsvars, last, loc, fd, lk, runs, histvars>>

\* os.rename(temp_file, STATE_FILE): an OSError when the name is gone
SvRename(p) ==
    /\ pc[p] = "sv_rename"
    /\ IF Exists(dir, TEMP_FILE)
       THEN /\ dir' = [f \in Files |-> IF f = STATE_FILE THEN dir[TEMP_FILE] ELSE NoIno]
            /\ inodes' = Collect(inodes, dir', fd)
            /\ Goto(p, "idle")
       ELSE Goto(p, "sv_except") /\ UNCHANGED fsvars
    /\ UNCHANGED <<envvars, last, loc, fd, lk, runs, histvars>>

\* the except clause: the temporary file is removed if it is there
SvExcept(p) ==
    /\ pc[p] = "sv_except"
    /\ IF Exists(dir, TEMP_FILE)
       THEN \E u \in {Unlink(dir, inodes, fd, TEMP_FILE)} :
              dir' = u.dir /\ inodes' = u.inodes
       ELSE UNCHANGED fsvars
    /\ Goto(p, "idle")
    /\ UNCHANGED <<envvars, last, loc, fd, lk, runs, histvars>>

NextConc ==
    \/ Tick
    \/ \E p \in Procs :
         \/ Start(p)
         \/ LdExists(p) \/ LdOpen(p) \/ LdLock(p) \/ LdRead(p)
         \/ SvOpen(p) \/ SvLock(p) \/ SvDump(p) \/ SvClose(p)
         \/ SvChmod(p) \/ SvRename(p) \/ SvExcept(p)

InitConc == Init /\ scheduler = LocalName

SpecConc == InitConc /\ [][NextConc]_vars

(* -------------------------------- C7 ---------------------------------- *)

\* C7: the document load_sequence_state is about to read under its shared
\* lock is a complete one: it parses.
C7_LoadSeesWholeDocument ==
    \A p \in Procs : pc[p] = "ld_read" => Decode(inodes[fd[p]]).ok

(* -------------------------------- C8 ---------------------------------- *)

\* holding the state file open under the shared lock, json.load to come
Reading(p) == pc[p] = "ld_read"

\* in json.dump under the exclusive lock, or past it with the buffer still
\* to be written out by the close
Writing(p) == pc[p] \in {"sv_dump", "sv_close"}

\* C8: no invocation reads a file that another is writing, and no two
\* invocations are writing the same file.
C8_LocksExclude ==
    \A p \in Procs : \A q \in Others(p) :
      /\ ~(Reading(p) /\ Writing(q) /\ fd[p] = fd[q])
      /\ ~(Writing(p) /\ Writing(q) /\ fd[p] = fd[q])

(* -------------------------------- C9 ---------------------------------- *)

\* C9: when two invocations have run and both are over, the state file is
\* there and holds the document of the state one of them saved.
C9_OneWholeSaveSurvives ==
    ((\A p \in Procs : pc[p] = "idle" /\ loc[p].lines # <<>>) /\ runs = 2)
    => /\ Exists(dir, STATE_FILE)
       /\ \E p \in Procs : inodes[dir[STATE_FILE]] = Encode(loc[p].state)

(* -------------------------------- C10 --------------------------------- *)

\* some invocation is running that no other invocation has run alongside
RunsAlone == \E p \in Procs : pc[p] # "idle" /\ ~ov[p]

\* C10 (as the code has it): while an invocation runs with no other beside
\* it, a monitor blocked on the same inode in the persisted state before
\* and after a step has the same blocked_since in both.
C10_ClockKeptByLoneRun ==
    [][RunsAlone =>
        \A before \in {Persisted}, after \in {PersistedNext} :
        \A m \in Mounts, k \in Kinds :
        \A b \in {MonOf(before, m, k)}, a \in {MonOf(after, m, k)} :
          (GetStatus(b) = "blocked" /\ GetStatus(a) = "blocked" /\ a.inode = b.inode)
          => a.blocked_since = b.blocked_since]_vars

\* an invocation that ran alone has saved a state in which a clock started
\* by an earlier run is kept
C10_Witness ==
    \E p \in Procs :
      /\ pc[p] = "idle" /\ ~ov[p] /\ loc[p].lines # <<>>
      /\ \A o \in Others(p) : pc[o] = "idle"
      /\ Persisted = loc[p].state
      /\ \E m \in Mounts, k \in Kinds :
         \E mon \in {MonOf(Persisted, m, k)} :
           /\ GetStatus(mon) = "blocked"
           /\ ObsOf(loc[p].lines, m, k).t = "blocked"
           /\ mon.blocked_since < loc[p].time

\* C10 as stated, overlapping invocations included: from one persisted
\* state to the next, blocked_since of a monitor blocked on the same inode
\* does not decrease.
C10_ClockNeverDecreases ==
    [][\A before \in {Persisted}, after \in {PersistedNext} :
       \A m \in Mounts, k \in Kinds :
       \A b \in {MonOf(before, m, k)}, a \in {MonOf(after, m, k)} :
         (GetStatus(b) = "blocked" /\ GetStatus(a) = "blocked" /\ a.inode = b.inode)
         => a.blocked_since >= b.blocked_since]_vars

(* ------------------- failing commands and failing files --------------- *)

\* dumps with one filesystem and dumps with none
DumpsErr ==
    {FsDump("/mnt/a", a, <<>>) :
       a \in {<<NotBlockedLine("arfind")>>,
              <<BlockedLine("arfind", "41", "io error")>>}}
    \cup {<<OtherLine>>, <<>>}

\* every system call of the state store may fail, one per invocation
StoreFailures == {IoOk, UnlinkFails, MakedirsFails} \cup SaveFailures

\* check_sequences, whole, with commands that fail, time out or cannot be
\* executed and with a state store whose system calls fail
CheckSequencesErr ==
    /\ \E sys \in SysRuns \cup {Unreachable} :
         CheckSequencesWith(sys, SeqRuns(DumpsErr) \cup {Unreachable}, cfg,
                            StoreFailures)
    /\ UNCHANGED <<now, scheduler, cfg, pc, loc, fd, lk, runs, histvars>>

NextErr == Tick \/ ChangeScheduler \/ CheckSequencesErr

SpecErr == Init /\ [][NextErr]_vars

\* the invocation of this step was told by the cluster who the scheduler is
ToldScheduler == RunStep /\ last'.sys = Exit(0, SysOutput(scheduler))

(* -------------------------------- C11 --------------------------------- *)

\* C11 (as the code has it): when the cluster names another node as the
\* scheduler, the run is OK with exactly one message naming that node and
\* does not run the dump command; the state file is absent afterwards
\* unless it existed and removing it failed, and then the run is still OK,
\* its one message carries the warning, and the file is left as it was.
C11_NotSchedulerOkAndFileGoneUnlessUnlinkFails ==
    [][(ToldScheduler /\ scheduler = OtherName)
       => /\ last'.outcome = "not scheduler"
          /\ last'.status = NRPE_EXIT_OK
          /\ last'.exit = 0
          /\ Len(last'.msgs) = 1
          /\ last'.msgs[1].sev = "OK"
          /\ last'.msgs[1].scheduler = OtherName
          /\ last'.seq = NoRun
          /\ IF UnlinkFails \in last'.io
             THEN Exists(dir, STATE_FILE) /\ dir' = dir /\ inodes' = inodes
             ELSE ~Exists(dir', STATE_FILE)]_vars

\* a run on a node that is not the scheduler removed a state file that held
\* a record
C11_Witness ==
    /\ last.outcome = "not scheduler"
    /\ last.sys = Exit(0, SysOutput(OtherName))
    /\ last.msgs[1].text = "Not scheduler node, removed stale state file"
    /\ last.msgs[1].scheduler = OtherName
    /\ ~Exists(dir, STATE_FILE)

\* C11 as stated: after a run on a node that is not the scheduler the state
\* file is absent.
C11_FileAbsentAfterwards ==
    last.outcome = "not scheduler" => ~Exists(dir, STATE_FILE)

(* -------------------------------- C12 --------------------------------- *)

\* the runs of `samcli system` that do not tell who the scheduler is: a
\* non-zero exit, a timeout, an output without the 'scheduler name' line
Undetermined == {Exit(1, <<>>), TimedOut, Exit(0, SysOutputNoLine)}

\* C12: when `samcli system` exits non-zero, times out or prints no
\* 'scheduler name : <value>' line, is_scheduler_node returns is_scheduler
\* false with the error set, and the run reports WARN with one message,
\* leaves the state file and its content as they were, and runs neither the
\* dump command nor the parser.
C12_UndeterminedWarnsAndTouchesNothing ==
    [][(RunStep /\ last'.sys \in Undetermined)
       => /\ \A r \in {IsSchedulerNode(last'.sys, Hostname)} :
               ~r.is_scheduler /\ r.error /\ ~r.raised
          /\ last'.outcome = "resolver error"
          /\ last'.status = NRPE_EXIT_WARN
          /\ last'.exit = 1
          /\ Len(last'.msgs) = 1
          /\ last'.msgs[1].sev = "WARN"
          /\ last'.seq = NoRun
          /\ last'.lines = <<>>
          /\ dir' = dir
          /\ inodes' = inodes]_vars

\* on a node that is not the scheduler and holds a state file with a
\* record, a run whose `samcli system` printed no scheduler line warned and
\* kept the file
C12_Witness ==
    /\ last.outcome = "resolver error"
    /\ last.sys = Exit(0, SysOutputNoLine)
    /\ scheduler = OtherName
    /\ Exists(dir, STATE_FILE)
    /\ Persisted # EmptyState

(* -------------------------------- C13 --------------------------------- *)

\* the dumps without a '### FSID:' header
NoFsDumps == {<<OtherLine>>, <<>>}

\* the invocation of this step ran on the scheduler and its dump command
\* came to seq
SchedulerRunOf(seq) ==
    ToldScheduler /\ scheduler = LocalName /\ last'.seq = seq

\* C13: a dump that succeeds and holds no filesystem block gives CRITICAL
\* 'No filesystems found in sequence output', exit code 2, and leaves the
\* state file and its content exactly as they were.
C13_NoFilesystemsCriticalAndUntouched ==
    [][(\E d \in NoFsDumps : SchedulerRunOf(Exit(0, d)))
       => /\ last'.outcome = "no filesystems"
          /\ last'.status = NRPE_EXIT_CRIT
          /\ last'.exit = 2
          /\ last'.msgs = <<Msg("CRITICAL", "", "", "No filesystems found in sequence output", 0)>>
          /\ dir' = dir
          /\ inodes' = inodes]_vars

\* a run with a dump without filesystems was CRITICAL and the state file
\* still holds the record written before it
C13_Witness ==
    /\ last.outcome = "no filesystems"
    /\ last.seq = Exit(0, <<OtherLine>>)
    /\ last.exit = 2
    /\ Exists(dir, STATE_FILE)
    /\ "/mnt/a" \in DOMAIN Persisted

(* -------------------------------- C14 --------------------------------- *)

\* C14: on the scheduler, a dump command that exits non-zero or times out
\* gives CRITICAL 'Sequence check failed' and exit code 2; cmd returns the
\* timeout as data with a non-zero return code and no output, as it does a
\* non-zero exit, and nothing is loaded or written.
C14_FailedDumpCritical ==
    [][(\E run \in {Exit(1, <<>>), TimedOut} : SchedulerRunOf(run))
       => /\ \A c \in {Cmd(last'.seq)} :
               ~c.raised /\ c.ret # 0 /\ c.stdout = <<>>
          /\ last'.outcome = "command failed"
          /\ last'.status = NRPE_EXIT_CRIT
          /\ last'.exit = 2
          /\ last'.msgs = <<Msg("CRITICAL", "", "", "Sequence check failed", 0)>>
          /\ dir' = dir
          /\ inodes' = inodes]_vars

\* a run on the scheduler whose dump command timed out was CRITICAL
C14_Witness ==
    /\ last.outcome = "command failed"
    /\ last.sys = Exit(0, SysOutput(LocalName))
    /\ last.seq = TimedOut
    /\ Cmd(last.seq).ret = -1
    /\ last.exit = 2

(* -------------------------------- C15 --------------------------------- *)

\* C15: a run one of whose samcli commands could not be executed at all
\* does not abort: it ends CRITICAL and the process exits with code 2.
C15_UnreachableIsCritical ==
    (last.sys = Unreachable \/ last.seq = Unreachable)
    => /\ last.outcome # "aborted"
       /\ last.status = NRPE_EXIT_CRIT
       /\ last.exit = 2

(* -------------------------------- C18 --------------------------------- *)

\* C18: a run in which a system call of the state store failed (makedirs,
\* open, write, chmod or rename in save_sequence_state, unlink on a node
\* that is not the scheduler) does not abort and ends with the status, the
\* messages' severities and the exit code of the same run without the
\* failure; the state file and its content are what they were before.
C18_StoreFailureSwallowed ==
    [][(RunStep /\ last'.io # {})
       => /\ last'.outcome \in {"tracked", "not scheduler"}
          /\ IF last'.outcome = "not scheduler"
             THEN /\ last'.io = {UnlinkFails}
                  /\ last'.status = NRPE_EXIT_OK
                  /\ last'.exit = 0
             ELSE /\ last'.io \subseteq ({MakedirsFails} \cup SaveFailures)
                  /\ \A t \in {Track(Persisted, last'.lines, now, cfg)} :
                       /\ last'.status = t.status
                       /\ last'.msgs = t.msgs
                       /\ last'.exit = MainExit(<<t.status>>)
          /\ dir'[STATE_FILE] = dir[STATE_FILE]
          /\ Exists(dir, STATE_FILE)
             => inodes'[dir[STATE_FILE]] = inodes[dir[STATE_FILE]]]_vars

\* a run that warned of an arfind blocked for a while could not rename the
\* temporary file: it still exits 1 and the state file holds the record
\* written by the run before it
C18_Witness ==
    /\ last.outcome = "tracked"
    /\ last.io = {"rename fails"}
    /\ last.status = NRPE_EXIT_WARN
    /\ last.exit = 1
    /\ MonOf(Persisted, "/mnt/a", "arfind") = BlockedMon(0, "41", "io error")

(* ------------------------ several filesystems ------------------------- *)

\* the blocks a dump can hold for each mount: arfind is followed on /mnt/a,
\* stfind on /mnt/b
BlocksOf(m) ==
    IF m = "/mnt/a"
    THEN {FsDump(m, <<l>>, <<>>) :
            l \in {NotBlockedLine("arfind"), BlockedLine("arfind", "41", "io error")}}
    ELSE {FsDump(m, <<>>, <<l>>) :
            l \in {NotBlockedLine("stfind"), BlockedLine("stfind", "42", "waiting on lock")}}

\* dumps with no filesystem, one, or both
DumpsMulti ==
    {<<OtherLine>>} \cup BlocksOf("/mnt/a") \cup BlocksOf("/mnt/b")
    \cup {a \o b : a \in BlocksOf("/mnt/a"), b \in BlocksOf("/mnt/b")}

\* without --mount, and with --mount /mnt/a
MultiCfgs == {Args(NoMount, 1, 2, 2, 1), Args("/mnt/a", 1, 2, 2, 1)}

InitMulti ==
    /\ now = 0
    /\ scheduler = LocalName
    /\ cfg \in MultiCfgs
    /\ dir = [f \in Files |-> NoIno]
    /\ inodes = [i \in Inos |-> <<>>]
    /\ last = Last("none", NRPE_EXIT_OK, <<>>, <<>>)
    /\ pc = [p \in Procs |-> "idle"]
    /\ loc = [p \in Procs |-> IdleLoc]
    /\ fd = NoFds
    /\ lk = [p \in Procs |-> "none"]
    /\ runs = 0
    /\ phase = [x \in Mounts \X Kinds |-> "none"]
    /\ nsrun = FALSE
    /\ ov = [p \in Procs |-> FALSE]

\* check_sequences, whole, on the scheduler, on dumps of several
\* filesystems; beside it, which mounts the state file held when it started
CheckSequencesMulti ==
    /\ \E sys \in SysRuns : CheckSequencesWith(sys, SeqRuns(DumpsMulti), cfg, NoFailure)
    /\ phase' = [x \in Mounts \X Kinds |->
                   IF x[1] \in DOMAIN Persisted THEN "stored" ELSE "none"]
    /\ UNCHANGED <<now, scheduler, cfg, pc, loc, fd, lk, runs, nsrun, ov>>

NextMulti == Tick \/ CheckSequencesMulti

SpecMulti == InitMulti /\ [][NextMulti]_vars

\* the dump has a block for mount m
InDump(lines, m) == ObsOf(lines, m, "arfind").t # "no block"

\* the mounts of the dump that --mount lets through
Processed(lines, args) ==
    {m \in Mounts : InDump(lines, m) /\ args.mount \in {NoMount, m}}

(* -------------------------------- C16 --------------------------------- *)

\* C16: the state file written by a run that found a filesystem block has
\* an entry for every filesystem the run processed and for no other: none
\* for a filesystem that has no block in the dump any more.
C16_SavedMountsAreProcessedMounts ==
    [][TrackedStep
       => /\ Exists(dir', STATE_FILE)
          /\ DOMAIN PersistedNext = Processed(last'.lines, cfg)
          /\ \A m \in Mounts :
               ~InDump(last'.lines, m) => m \notin DOMAIN PersistedNext]_vars

\* the state file held both filesystems, and a run whose dump had only
\* /mnt/b wrote a state without /mnt/a
C16_Witness ==
    /\ Tracked
    /\ \A k \in Kinds : phase[<<"/mnt/a", k>>] = "stored" /\ phase[<<"/mnt/b", k>>] = "stored"
    /\ InDump(last.lines, "/mnt/b")
    /\ ~InDump(last.lines, "/mnt/a")
    /\ DOMAIN Persisted = {"/mnt/b"}

(* -------------------------------- C20 --------------------------------- *)

\* C20: the status of a run is the worst severity among its messages: the
\* per-monitor lines of every filesystem processed, WARN for a resolver
\* error, CRITICAL for a failed dump command or a dump without filesystems.
\* The process exits with that status, 0, 1 or 2, and with the worse of the
\* two when another check ran beside it; an OK line printed after a WARN or
\* CRITICAL one does not lower it.
C20_StatusIsWorstSeverity ==
    last.outcome # "none"
    => /\ last.status = WorstOf(last.msgs)
       /\ last.status \in {NRPE_EXIT_OK, NRPE_EXIT_WARN, NRPE_EXIT_CRIT}
       /\ last.outcome = "resolver error" => last.status = NRPE_EXIT_WARN
       /\ last.outcome \in {"command failed", "no filesystems"}
          => last.status = NRPE_EXIT_CRIT
       /\ last.exit = last.status
       /\ \A other \in {NRPE_EXIT_OK, NRPE_EXIT_WARN, NRPE_EXIT_CRIT} :
            /\ MainExit(<<last.status, other>>)
               = (IF other > last.status THEN other ELSE last.status)
            /\ MainExit(<<other, last.status>>)
               = (IF other > last.status THEN other ELSE last.status)

\* a run printed a WARN line for arfind on /mnt/a and after it an OK line
\* for stfind on /mnt/b, and exits 1
C20_Witness ==
    /\ Tracked
    /\ Len(last.msgs) = 2
    /\ last.msgs[1].sev = "WARN" /\ last.msgs[1].mount = "/mnt/a"
    /\ last.msgs[2].sev = "OK" /\ last.msgs[2].mount = "/mnt/b"
    /\ last.status = NRPE_EXIT_WARN
    /\ last.exit = 1

(* ------------------------- a damaged state file ----------------------- *)

\* what a damaged state file can hold in place of the document ls: a
\* prefix of it, or bytes that are not text, alone or after it
Damaged(ls) ==
    {SubSeq(ls, 1, n) : n \in 0..(Len(ls) - 1)}
    \cup {<<BadBytes>>, ls \o <<BadBytes>>}

\* the document a run wrote to the state file is damaged before the next
\* invocation
Damage ==
    /\ Exists(dir, STATE_FILE)
    /\ Readable(inodes[dir[STATE_FILE]])
    /\ Decode(inodes[dir[STATE_FILE]]).ok
    /\ \E doc \in Damaged(inodes[dir[STATE_FILE]]) :
         inodes' = [inodes EXCEPT ![dir[STATE_FILE]] = doc]
    /\ UNCHANGED <<now, scheduler, cfg, dir, last, pc, loc, fd, lk, runs, histvars>>

\* check_sequences, whole, on a state file that may be damaged or
\* unreadable
CheckSequencesLoad ==
    /\ \E sys \in SysRuns :
         CheckSequencesWith(sys, SeqRuns(DumpsErr), cfg, {IoOk, LoadFails})
    /\ UNCHANGED <<now, scheduler, cfg, pc, loc, fd, lk, runs, histvars>>

NextLoad == Tick \/ ChangeScheduler \/ Damage \/ CheckSequencesLoad

SpecLoad == Init /\ [][NextLoad]_vars

(* -------------------------------- C17 --------------------------------- *)

\* C17: load_sequence_state never raises: whatever the state file holds, a
\* run whose commands succeed is not ended by an exception.
C17_LoadNeverRaises == last.outcome # "aborted"

(* ------------------------- save and load again ------------------------ *)

\* the valid monitor states: NotBlocked, or Blocked with blocked_since,
\* inode and reason
MonStates ==
    {NotBlockedMon}
    \cup {BlockedMon(t, b[1], b[2]) : t \in 0..MaxTime, b \in BlockedPairs}

\* the records a mount can have
FsRecords(m) ==
    [fsid : {FsidOf[m]}, last_check : {0, MaxTime}, current_fs_seq : {NoSeq, 7},
     arfind : MonStates,
     stfind : {NotBlockedMon, BlockedMon(1, "42", "waiting on lock")}]

\* the states over zero, one or two mounts
States ==
    {EmptyState}
    \cup UNION {{Put(EmptyState, m, r) : r \in FsRecords(m)} : m \in Mounts}
    \cup {Put(Put(EmptyState, "/mnt/a", ra), "/mnt/b", rb) :
            ra \in FsRecords("/mnt/a"), rb \in FsRecords("/mnt/b")}

\* p1 holds the state to save; the state file is absent or holds an older
\* document
InitRT ==
    /\ now = 0
    /\ scheduler = LocalName
    /\ cfg \in ThresholdCfgs
    /\ \E old \in {NoIno, 1} :
         /\ dir = [f \in Files |-> IF f = STATE_FILE THEN old ELSE NoIno]
         /\ inodes = [i \in Inos |->
                        IF i = old
                        THEN Encode(Put(EmptyState, "/mnt/a",
                                        [fsid |-> FsidOf["/mnt/a"], last_check |-> 0,
                                         current_fs_seq |-> NoSeq,
                                         arfind |-> BlockedMon(0, "41", "io error"),
                                         stfind |-> NotBlockedMon]))
                        ELSE <<>>]
    /\ last = Last("none", NRPE_EXIT_OK, <<>>, <<>>)
    /\ pc = [p \in Procs |-> "idle"]
    /\ \E state \in States :
         loc = [p \in Procs |-> IF p = "p1" THEN [IdleLoc EXCEPT !.state = state]
                                ELSE IdleLoc]
    /\ fd = NoFds
    /\ lk = [p \in Procs |-> "none"]
    /\ runs = 0
    /\ phase = [x \in Mounts \X Kinds |-> "none"]
    /\ nsrun = FALSE
    /\ ov = [p \in Procs |-> FALSE]

\* save_sequence_state(state), no system call failing
SaveState ==
    /\ pc["p1"] = "idle"
    /\ \E w \in {SaveSequenceState(dir, inodes, NoFds, loc["p1"].state, IoOk)} :
         /\ dir' = w.dir
         /\ inodes' = w.inodes
    /\ pc' = [pc EXCEPT !["p1"] = "saved"]
    /\ UNCHANGED <<now, scheduler, cfg, last, loc, fd, lk, runs, histvars>>

\* load_sequence_state() after it; p2 holds what it returned
LoadState ==
    /\ pc["p1"] = "saved"
    /\ \E ld \in {LoadSequenceState(dir, inodes, IoOk)} :
         /\ ~ld.raised
         /\ loc' = [loc EXCEPT !["p2"].state = ld.state]
    /\ pc' = [pc EXCEPT !["p1"] = "loaded"]
    /\ UNCHANGED <<now, scheduler, cfg, dir, inodes, last, fd, lk, runs, histvars>>

NextRT == SaveState \/ LoadState

SpecRT == InitRT /\ [][NextRT]_vars

(* -------------------------------- C19 --------------------------------- *)

\* C19: with no failure and nothing else running, the state that
\* load_sequence_state returns after save_sequence_state(state) equals
\* state, for every state over zero, one or two mounts whose monitors are
\* NotBlocked or Blocked with blocked_since, inode and reason.
C19_RoundTrip ==
    pc["p1"] = "loaded" => loc["p2"].state = loc["p1"].state

\* a state with two mounts, arfind blocked on one and not blocked on the
\* other, came back from the file that used to hold another document
C19_Witness ==
    /\ pc["p1"] = "loaded"
    /\ DOMAIN loc["p1"].state = Mounts
    /\ loc["p1"].state["/mnt/a"].arfind = BlockedMon(MaxTime, "42", "waiting on lock")
    /\ loc["p1"].state["/mnt/b"].arfind = NotBlockedMon
    /\ loc["p1"].state["/mnt/b"].current_fs_seq = 7
    /\ loc["p2"].state = loc["p1"].state
    /\ dir[STATE_FILE] = 1

(* ------------------------- names of every shape ----------------------- *)

MaxNameLen == 3

\* the characters of a host name: a letter in both cases, a digit, the dot
NameChars == {"n", "N", "1", "."}

\* the names of one to MaxNameLen characters
Names == UNION {[1..n -> NameChars] : n \in 1..MaxNameLen}

\* no file, no invocation running, nothing observed yet
Fresh ==
    /\ now = 0
    /\ dir = [f \in Files |-> NoIno]
    /\ inodes = [i \in Inos |-> <<>>]
    /\ pc = [p \in Procs |-> "idle"]
    /\ fd = NoFds
    /\ lk = [p \in Procs |-> "none"]
    /\ runs = 0
    /\ phase = [x \in Mounts \X Kinds |-> "none"]
    /\ nsrun = FALSE
    /\ ov = [p \in Procs |-> FALSE]

\* the cluster reports any name as the scheduler's and socket.gethostname()
\* returns any name (kept in p1's lines)
InitHost ==
    /\ Fresh
    /\ scheduler \in Names
    /\ cfg \in ThresholdCfgs
    /\ last = Last("none", NRPE_EXIT_OK, <<>>, <<>>)
    /\ \E h \in Names :
         loc = [p \in Procs |-> IF p = "p1" THEN [IdleLoc EXCEPT !.lines = h]
                                ELSE IdleLoc]

\* is_scheduler_node() on a `samcli system` that succeeds; what it returned
\* is kept as the one entry of last.msgs
Resolve ==
    /\ pc["p1"] = "idle"
    /\ \E sys \in {Exit(0, SysOutput(scheduler))} :
       \E r \in {IsSchedulerNode(sys, loc["p1"].lines)} :
         last' = LastOf("resolved", NRPE_EXIT_OK, <<r>>, <<>>, sys, NoRun, {})
    /\ pc' = [pc EXCEPT !["p1"] = "resolved"]
    /\ UNCHANGED <<now, scheduler, cfg, dir, inodes, loc, fd, lk, runs, histvars>>

NextHost == Resolve

SpecHost == InitHost /\ [][NextHost]_vars

\* s up to its first dot: the prefix without a dot that ends the name or is
\* followed by a dot
BeforeFirstDot(s) ==
    CHOOSE q \in {SubSeq(s, 1, n) : n \in 0..Len(s)} :
      /\ \A i \in 1..Len(q) : q[i] # "."
      /\ Len(q) = Len(s) \/ s[Len(q) + 1] = "."

\* the same letter in either case, or the same character
SameIgnoringCase(a, b) == a = b \/ {a, b} = {"n", "N"}

(* -------------------------------- C21 --------------------------------- *)

\* C21: is_scheduler_node returns is_scheduler = true exactly when the
\* reported scheduler name up to its first '.' and the local host name up
\* to its first '.' have the same length and the same characters, letters
\* compared without their case; it returns the reported name and no error.
C21_ShortNamesIgnoringCase ==
    last.outcome = "resolved"
    => \A r \in {last.msgs[1]} :
       \A a \in {BeforeFirstDot(scheduler)} :
       \A b \in {BeforeFirstDot(loc["p1"].lines)} :
         /\ ~r.error /\ ~r.raised
         /\ r.scheduler_name = scheduler
         /\ r.is_scheduler
            <=> /\ Len(a) = Len(b)
                /\ \A i \in 1..Len(a) : SameIgnoringCase(a[i], b[i])

\* the scheduler 'N1.' with a domain and the host 'n1' compared as the same
\* node
C21_Witness ==
    /\ last.outcome = "resolved"
    /\ scheduler = <<"N", "1", ".">>
    /\ loc["p1"].lines = <<"n", "1">>
    /\ last.msgs[1].is_scheduler

(* ------------------------- dumps of every shape ----------------------- *)

MaxDumpLen == 3

\* the lines a dump is made of here: the two headers, a monitor line, a
\* line of other text
DumpLines ==
    {Header(FsidOf[m], m) : m \in Mounts}
    \cup {NotBlockedLine("arfind"), OtherLine}

\* the outputs of zero to MaxDumpLen lines
DumpsOfLines == UNION {[1..n -> DumpLines] : n \in 0..MaxDumpLen}

\* the node is the scheduler and `samcli debug seq -c` prints any of the
\* outputs (kept in p1's lines)
InitSplit ==
    /\ Fresh
    /\ scheduler = LocalName
    /\ cfg \in ThresholdCfgs
    /\ last = Last("none", NRPE_EXIT_OK, <<>>, <<>>)
    /\ \E d \in DumpsOfLines :
         loc = [p \in Procs |-> IF p = "p1" THEN [IdleLoc EXCEPT !.lines = d]
                                ELSE IdleLoc]

\* check_sequences, whole, on that output
CheckSequencesSplit ==
    /\ CheckSequencesWith(Exit(0, SysOutput(scheduler)), {Exit(0, loc["p1"].lines)},
                          cfg, NoFailure)
    /\ UNCHANGED <<now, scheduler, cfg, pc, loc, fd, lk, runs, histvars>>

NextSplit == CheckSequencesSplit

SpecSplit == InitSplit /\ [][NextSplit]_vars

\* the header lines of an output
HeadersOf(lines) == {i \in 1..Len(lines) : lines[i].t = "hdr"}

(* -------------------------------- C22 --------------------------------- *)

\* C22: every header line of the dump yields one filesystem block, a header
\* followed by no line included, and a dump with a header line is never
\* reported as 'No filesystems found'.
C22_EveryHeaderYieldsABlock ==
    last.outcome \in {"tracked", "no filesystems"}
    => /\ Len(FsBlocks(last.lines)) = Cardinality(HeadersOf(last.lines))
       /\ HeadersOf(last.lines) # {} => last.outcome = "tracked"

(* --------------------------- the --mount filter ----------------------- *)

\* mounts of which one is a prefix of the next
FilterMounts == {"/mnt", "/mnt/a", "/mnt/ab"}

\* a block of one filesystem: the header as printed, the sequence line, an
\* arfind line
FilterBlock(fsid, printed, line) == <<Header(fsid, printed), SeqLine(7), line>>

\* the blocks a dump can hold for each mount; /mnt/a is also printed with a
\* blank after it
FilterBlocksOf(m) ==
    IF m = "/mnt/a"
    THEN {<<>>,
          FilterBlock("f0a", "/mnt/a", NotBlockedLine("arfind")),
          FilterBlock("f0a", "/mnt/a ", BlockedLine("arfind", "41", "io error"))}
    ELSE IF m = "/mnt/ab"
    THEN {<<>>, FilterBlock("f0c", m, BlockedLine("arfind", "42", "waiting on lock"))}
    ELSE {<<>>, FilterBlock("f0d", m, BlockedLine("arfind", "41", "io error"))}

\* dumps with any of the three filesystems, and a dump with none
DumpsFilter ==
    {x \o a \o ab : x \in FilterBlocksOf("/mnt"), a \in FilterBlocksOf("/mnt/a"),
                    ab \in FilterBlocksOf("/mnt/ab")}

\* without --mount, and with --mount /mnt/a
FilterCfgs == {Args(NoMount, 1, 2, 2, 1), Args("/mnt/a", 1, 2, 2, 1)}

InitFilter ==
    /\ Fresh
    /\ scheduler = LocalName
    /\ cfg \in FilterCfgs
    /\ last = Last("none", NRPE_EXIT_OK, <<>>, <<>>)
    /\ loc = [p \in Procs |-> IdleLoc]

\* the next invocation is given other arguments
ChangeArgs ==
    /\ \E args \in FilterCfgs \ {cfg} : cfg' = args
    /\ UNCHANGED <<now, scheduler, dir, inodes, last, pc, loc, fd, lk, runs, histvars>>

\* check_sequences, whole, on the scheduler, with or without --mount
CheckSequencesFilter ==
    /\ CheckSequencesWith(Exit(0, SysOutput(scheduler)),
                          {Exit(0, d) : d \in DumpsFilter}, cfg, NoFailure)
    /\ UNCHANGED <<now, scheduler, cfg, pc, loc, fd, lk, runs, histvars>>

NextFilter == Tick \/ ChangeArgs \/ CheckSequencesFilter

SpecFilter == InitFilter /\ [][NextFilter]_vars

\* the mounts a run printed a line for
MountsIn(msgs) == {msgs[i].mount : i \in 1..Len(msgs)}

\* a step that is one whole invocation with --mount on the scheduler
FilteredStep == RunStep /\ cfg' = cfg /\ cfg.mount # NoMount

(* -------------------------------- C23 --------------------------------- *)

\* C23: with --mount, a run prints lines and writes a state entry for the
\* filesystem whose mount, trimmed, equals the filter, when the dump has
\* it, and for no other: not for a mount that starts with the filter nor
\* for one the filter starts with.
C23_FilterIsEquality ==
    [][(FilteredStep /\ last'.outcome = "tracked")
       => \A hit \in {IF InDump(last'.lines, cfg.mount) THEN {cfg.mount} ELSE {}} :
            /\ DOMAIN PersistedNext = hit
            /\ MountsIn(last'.msgs) = hit
            /\ \A m \in hit : PersistedNext[m].last_check = now]_vars

\* a run with --mount /mnt/a on a dump with /mnt, '/mnt/a ' and /mnt/ab
\* printed lines for /mnt/a only
C23_Witness ==
    /\ Tracked
    /\ cfg.mount = "/mnt/a"
    /\ \A m \in FilterMounts : InDump(last.lines, m)
    /\ \E i \in 1..Len(last.lines) :
         last.lines[i].t = "hdr" /\ last.lines[i].b = "/mnt/a "
    /\ MountsIn(last.msgs) = {"/mnt/a"}
    /\ DOMAIN Persisted = {"/mnt/a"}

(* -------------------------------- C25 --------------------------------- *)

\* the dump has a header that yields a block
HasBlocks(lines) == Len(FsBlocks(lines)) > 0

\* C25: with --mount, a dump that has blocks but none for that mount is not
\* 'No filesystems found': the run is OK, prints no line, exits 0 and goes
\* on to the write, which leaves a state file without entries.
C25_FilteredOutIsNotNoFilesystems ==
    [][(FilteredStep /\ HasBlocks(last'.lines) /\ ~InDump(last'.lines, cfg.mount))
       => /\ last'.outcome = "tracked"
          /\ last'.status = NRPE_EXIT_OK
          /\ last'.msgs = <<>>
          /\ last'.exit = 0
          /\ Exists(dir', STATE_FILE)
          /\ PersistedNext = EmptyState]_vars

\* a run with --mount /mnt/a on a dump that holds /mnt/ab and /mnt only was
\* OK without a line
C25_Witness ==
    /\ Tracked
    /\ cfg.mount = "/mnt/a"
    /\ InDump(last.lines, "/mnt/ab") /\ InDump(last.lines, "/mnt")
    /\ ~InDump(last.lines, "/mnt/a")
    /\ last.msgs = <<>>
    /\ last.status = NRPE_EXIT_OK
    /\ Exists(dir, STATE_FILE)

(* -------------------------------- C26 --------------------------------- *)

\* C26: a run with --mount leaves the persisted entry of every other mount
\* that is still in the dump as it was before the run.
C26_FilteredRunKeepsOtherMounts ==
    [][(FilteredStep /\ last'.outcome = "tracked")
       => \A m \in FilterMounts \ {cfg.mount} :
            (m \in DOMAIN Persisted /\ InDump(last'.lines, m))
            => /\ m \in DOMAIN PersistedNext
               /\ PersistedNext[m] = Persisted[m]]_vars

(* ---------------------- two monitors, two filesystems ----------------- *)

\* what a block can hold for one monitor: no line, 'Not Blocked', 'Blocked'
PairLines(kind, inode) ==
    {<<>>, <<NotBlockedLine(kind)>>, <<BlockedLine(kind, inode, "io error")>>}

\* /mnt/a with every combination for its two monitors, followed or not by
\* /mnt/b with an arfind line; and a dump without filesystems
DumpsPairs ==
    {FsDump("/mnt/a", a, s) \o b :
       a \in PairLines("arfind", "41"), s \in PairLines("stfind", "42"),
       b \in {<<>>} \cup {FsDump("/mnt/b", l, <<>>) :
                            l \in PairLines("arfind", "41") \ {<<>>}}}
    \cup {<<OtherLine>>}

InitPairs ==
    /\ Fresh
    /\ scheduler = LocalName
    /\ cfg \in ThresholdCfgs
    /\ last = Last("none", NRPE_EXIT_OK, <<>>, <<>>)
    /\ loc = [p \in Procs |-> IdleLoc]

\* check_sequences, whole, on the scheduler, on those dumps
CheckSequencesPairs ==
    /\ CheckSequencesWith(Exit(0, SysOutput(scheduler)),
                          {Exit(0, d) : d \in DumpsPairs}, cfg, NoFailure)
    /\ UNCHANGED <<now, scheduler, cfg, pc, loc, fd, lk, runs, histvars>>

NextPairs == Tick \/ CheckSequencesPairs

SpecPairs == InitPairs /\ [][NextPairs]_vars

\* how many lines a run printed for monitor k of mount m
MsgCount(msgs, m, k) ==
    Cardinality({i \in 1..Len(msgs) : msgs[i].mount = m /\ msgs[i].kind = k})

(* -------------------------------- C24 --------------------------------- *)

\* C24 (as the code has it): a run that finds filesystems prints, for every
\* filesystem of the dump and each of its two monitors, one line when the
\* block has the monitor's Blocked or Not Blocked line and none when it has
\* neither, whatever severity the filesystems and monitors before it had.
C24_OneLineUnlessAbsent ==
    Tracked
    => \A m \in Mounts, k \in Kinds :
         MsgCount(last.msgs, m, k)
         = (IF ObsOf(last.lines, m, k).t \in {"blocked", "not_blocked"} THEN 1 ELSE 0)

\* arfind on /mnt/a was CRITICAL, and the run went on to print the line of
\* its stfind and the line of /mnt/b's arfind
C24_Witness ==
    /\ Tracked
    /\ Len(last.msgs) = 3
    /\ last.msgs[1].sev = "CRITICAL"
    /\ last.msgs[1].mount = "/mnt/a" /\ last.msgs[1].kind = "arfind"
    /\ last.msgs[2].mount = "/mnt/a" /\ last.msgs[2].kind = "stfind"
    /\ last.msgs[3].mount = "/mnt/b" /\ last.msgs[3].kind = "arfind"

\* C24 as stated: one line per monitor of every processed filesystem, the
\* monitors with neither line in the block included.
C24_OneLinePerMonitor ==
    Tracked
    => \A m \in Mounts, k \in Kinds :
         InDump(last.lines, m) => MsgCount(last.msgs, m, k) = 1

(* -------------------------------- C30 --------------------------------- *)

\* the lines of a dump that are about monitor k of mount m, alone
OwnLines(lines, m, k) ==
    LET o == ObsOf(lines, m, k) IN
    IF o.t = "blocked" THEN <<BlockedLine(k, o.inode, o.reason)>>
    ELSE IF o.t = "not_blocked" THEN <<NotBlockedLine(k)>>
    ELSE <<>>

\* C30: in a run that tracks filesystems, the record written and the lines
\* printed for a (mount, monitor) pair are those that the pair's own lines of
\* the dump, its own record before the run and its own thresholds give,
\* whatever the dump says about the other monitor and the other filesystem.
C30_PairsTrackedIndependently ==
    [][TrackedStep
       => \E pre \in {Persisted}, post \in {PersistedNext} :
          \A m \in Mounts, k \in Kinds :
            InDump(last'.lines, m)
            => \E r \in {CheckMonitor(k, MonOf(pre, m, k), m,
                                      OwnLines(last'.lines, m, k), now,
                                      WarnOf(cfg, k), CritOf(cfg, k))} :
                 /\ MonOf(post, m, k) = r.mon
                 /\ MsgsFor(last'.msgs, m, k) = {r.msgs[i] : i \in 1..Len(r.msgs)}
                 /\ MsgCount(last'.msgs, m, k) = Len(r.msgs)]_vars

\* one run left three blocked pairs with three different onsets, and printed
\* a CRITICAL, a WARN and an OK line for them
C30_Witness ==
    /\ Tracked
    /\ \E st \in {Persisted} :
         /\ DOMAIN st = Mounts
         /\ st["/mnt/a"].arfind = BlockedMon(1, "41", "io error")
         /\ st["/mnt/a"].stfind = BlockedMon(0, "42", "io error")
         /\ st["/mnt/b"].arfind = BlockedMon(2, "41", "io error")
    /\ {last.msgs[i].sev : i \in 1..Len(last.msgs)} = {"CRITICAL", "WARN", "OK"}

(* -------------------------------- C28 --------------------------------- *)

\* C28: on the scheduler, a run whose dump command exits non-zero or times
\* out leaves the state file, its bytes and the state they decode to as they
\* were; and the run after it that finds the same inode still blocking
\* reports the time since the onset recorded before the failed run, and
\* keeps that onset.
C28_FailedDumpKeepsClocks ==
    [][/\ (\E run \in {Exit(1, <<>>), TimedOut} : SchedulerRunOf(run))
          => /\ dir' = dir
             /\ inodes' = inodes
             /\ PersistedNext = Persisted
             /\ last'.lines = <<>>
       /\ \A m \in Mounts, k \in Kinds :
            \A o \in {ObsOf(last'.lines, m, k)} :
            \A mon \in {MonOf(Persisted, m, k)} :
              ( /\ TrackedStep
                /\ last.outcome = "command failed"
                /\ last'.io = {}
                /\ o.t = "blocked"
                /\ GetStatus(mon) = "blocked"
                /\ GetInode(mon) = o.inode )
              => /\ MonOf(PersistedNext, m, k).blocked_since = mon.blocked_since
                 /\ \A x \in MsgsFor(last'.msgs, m, k) :
                      x.dur = now - mon.blocked_since]_vars

\* the dump command failed at time 2 on the scheduler and the onset recorded
\* at time 0 is still in the state file
C28_Witness ==
    /\ last.outcome = "command failed"
    /\ last.seq \in {Exit(1, <<>>), TimedOut}
    /\ now = 2
    /\ MonOf(Persisted, "/mnt/a", "arfind") = BlockedMon(0, "41", "io error")

(* -------------------------------- C29 --------------------------------- *)

\* a monitor record has blocked_since, inode and reason exactly when its
\* status is blocked
MonWellFormed(mon) ==
    /\ "status" \in DOMAIN mon
    /\ mon.status \in {"blocked", "not_blocked"}
    /\ mon.status = "blocked"
       => DOMAIN mon = {"status", "blocked_since", "inode", "reason"}
    /\ mon.status = "not_blocked" => DOMAIN mon = {"status"}

\* every mount record has its two monitor records, well formed
StateWellFormed(state) ==
    \A m \in DOMAIN state :
      /\ Kinds \subseteq DOMAIN state[m]
      /\ \A k \in Kinds : MonWellFormed(state[m][k])

\* C29: the state in the state file is well formed, and no blocked_since in
\* it is later than the time of the run that wrote it, which is the
\* last_check that run gave every mount record it wrote.
C29_WrittenStateWellFormed ==
    \A st \in {Persisted} :
      /\ StateWellFormed(st)
      /\ \A m \in DOMAIN st, k \in Kinds :
           GetStatus(st[m][k]) = "blocked"
           => st[m][k].blocked_since <= st[m].last_check

(* ------------- overlapping invocations while the scheduler moves ------ *)

\* check_sequences on a node the resolver finds not to be the scheduler,
\* whole: the state file is removed if it is there, and the invocation ends
NotScheduler(p) ==
    /\ pc[p] = "idle"
    /\ runs < MaxRuns
    /\ \E r \in {IsSchedulerNode(Exit(0, SysOutput(scheduler)), Hostname)} :
         /\ ~r.raised /\ ~r.error /\ ~r.is_scheduler
         /\ \E u \in {IF Exists(dir, STATE_FILE)
                       THEN Unlink(dir, inodes, fd, STATE_FILE)
                       ELSE [dir |-> dir, inodes |-> inodes]} :
              /\ dir' = u.dir
              /\ inodes' = u.inodes
              /\ last' = LastOf("not scheduler", NRPE_EXIT_OK,
                                <<SchedMsg(IF Exists(dir, STATE_FILE)
                                           THEN "Not scheduler node, removed stale state file"
                                           ELSE "Not scheduler node", r.scheduler_name)>>,
                                <<>>, Exit(0, SysOutput(scheduler)), NoRun, {})
    /\ runs' = runs + 1
    /\ nsrun' = TRUE
    /\ UNCHANGED <<envvars, pc, loc, fd, lk, phase, ov>>

NextMove ==
    \/ NextConc
    \/ ChangeScheduler
    \/ \E p \in Procs : NotScheduler(p)

SpecMove == Init /\ [][NextMove]_vars

(* -------------------------------- C27 --------------------------------- *)

\* C27: once every invocation has finished, if the one started last found
\* the node not to be the scheduler, the state file is absent.
C27_AbsentAfterLastFoundNotScheduler ==
    ((\A p \in Procs : pc[p] = "idle") /\ nsrun) => ~Exists(dir, STATE_FILE)

(* ------------------- overlapping invocations, scheduled --------------- *)

\* exists, open and json.load do not wait: the invocation that is in one of
\* them leaves it, for the next call of the load or for what follows it
Returns(p) ==
    /\ pc[p] \in {"ld_exists", "ld_open", "ld_read"}
    /\ \E w \in {"ld_open", "ld_lock", "ld_read", "sv_open", "idle"} \ {pc[p]} :
         pc' = [pc EXCEPT ![p] = w]

\* a step of a started invocation: a system call of load_sequence_state or
\* save_sequence_state returns.  Of the steps of NextMove, those that
\* satisfy Returns(p) are LdExists(p), LdOpen(p) and LdRead(p), which can
\* always be taken where they stand.
Step(p) ==
    \/ Returns(p) \/ LdLock(p)
    \/ SvOpen(p) \/ SvLock(p) \/ SvDump(p) \/ SvClose(p)
    \/ SvChmod(p) \/ SvRename(p) \/ SvExcept(p)

\* the operating system runs every started invocation: a process whose next
\* system call can return is not left waiting for ever (every step of an
\* invocation changes its position)
SpecMoveFair == SpecMove /\ \A p \in Procs : WF_pc(Step(p))

\* the exit code main gives the invocation p has finished
ExitCode(p) == MainExit(<<loc[p].status>>)

\* invocation p is in flock, waiting for the lock or about to get it
WaitsForLock(p) == pc[p] \in {"ld_lock", "sv_lock"}

(* -------------------------------- C31 --------------------------------- *)

\* C31: no invocation waits for a lock while it holds one, and every
\* invocation that has started finishes, with exit code 0, 1 or 2, whatever
\* other invocations overlap with it.
C31_InvocationsTerminate ==
    /\ [](\A p \in Procs : WaitsForLock(p) => lk[p] = "none")
    /\ \A p \in Procs :
         (pc[p] # "idle") ~> (pc[p] = "idle" /\ ExitCode(p) \in {0, 1, 2})

\* two invocations that overlapped have both finished, one of them having
\* written the state file
C31_Witness ==
    /\ \A p \in Procs : pc[p] = "idle" /\ ov[p] /\ ExitCode(p) \in {0, 1, 2}
    /\ Exists(dir, STATE_FILE)
====
